---- MODULE Spec2Model ----
(***************************************************************************)
(* A model of the Pseudo3D raycasting renderer: the Ray (DDA traversal),   *)
(* the Screen buffers, Renderer.render with its four passes, and the       *)
(* objects handed to it (Vector, Camera, Scene lighting, Texture, Color).  *)
(*                                                                         *)
(* JavaScript numbers are modelled as extended rationals <<n, d>>:         *)
(*   d > 0   the finite value n/d, in lowest terms                         *)
(*   <<1,0>> +Infinity, <<-1,0>> -Infinity, <<0,0>> NaN                    *)
(* The sign of zero is not modelled.                                       *)
(***************************************************************************)
EXTENDS Integers, Sequences, FiniteSets, TLC

VARIABLES
    scene,       \* the Scene: worldMap, floor, ceiling, skybox, gameObject, lighting
    camera,      \* the camera object the renderer reads
    screen,      \* the Screen: renderWidth, renderHeight, pixels, depthBuffer, canvas
    pc,          \* position of the running call ("idle" when none)
    passLog,     \* the passes the current / last render entered, in order
    log,         \* per-pixel draw attempts of the current / last render
    lastOp,      \* the last operation that completed on the screen
    threw,       \* the argument check on which the last render call threw, or "none"
    afterClear,  \* TRUE when the current / last render started on a cleared screen
    ray,         \* a Ray object (ray.js)
    rayReads,    \* reads of worldMap.data by the last cast(): cell and index
    rayVisited,  \* the cell the last cast() started in, then the cells it stepped into
    nCasts,      \* number of cast() calls made on ray
    prevRay,     \* ray as the previous cast() (or init) left it
    userTexture, \* a Texture object and the state of its image load
    userVector,  \* a Vector object (vector.js)
    call         \* the last constructor or method call: name, arguments, count

\* the objects used on their own, which the render and ray operations leave alone
objectVars == <<userTexture, userVector, call>>

vars == <<scene, camera, screen, pc, passLog, log, lastOp, threw, afterClear,
          ray, rayReads, rayVisited, nCasts, prevRay,
          userTexture, userVector, call>>

-----------------------------------------------------------------------------
(* Numbers *)

RECURSIVE Gcd(_, _)
Gcd(a, b) == IF b = 0 THEN a ELSE Gcd(b, a % b)

IAbs(i) == IF i < 0 THEN -i ELSE i

Sign(i) == IF i > 0 THEN 1 ELSE IF i < 0 THEN -1 ELSE 0

\* the number n/d in canonical form
R(n, d) ==
    IF d = 0 THEN <<Sign(n), 0>>
    ELSE IF n = 0 THEN <<0, 1>>
    ELSE LET g == Gcd(IAbs(n), IAbs(d))
             s == IF d < 0 THEN -1 ELSE 1
         IN  <<(s * n) \div g, (s * d) \div g>>

N(i) == <<i, 1>>

Infinity == <<1, 0>>
NegInfinity == <<-1, 0>>
NaN == <<0, 0>>

IsNaN(a) == a = NaN
IsFinite(a) == a[2] > 0
IsInt(a) == a[2] = 1

RAdd(a, b) ==
    IF IsNaN(a) \/ IsNaN(b) THEN NaN
    ELSE IF a[2] = 0 /\ b[2] = 0 THEN (IF a = b THEN a ELSE NaN)
    ELSE IF a[2] = 0 THEN a
    ELSE IF b[2] = 0 THEN b
    ELSE LET g == Gcd(a[2], b[2])   \* over the least common denominator
         IN  R(a[1] * (b[2] \div g) + b[1] * (a[2] \div g),
               a[2] * (b[2] \div g))

RNeg(a) == <<-a[1], a[2]>>

RSub(a, b) == RAdd(a, RNeg(b))

RMul(a, b) == R(a[1] * b[1], a[2] * b[2])

\* a / b; x / 0 is +-Infinity for x # 0, 0 / 0 is NaN
RDiv(a, b) ==
    IF IsNaN(a) \/ IsNaN(b) THEN NaN
    ELSE IF b[2] = 0 THEN (IF a[2] = 0 THEN NaN ELSE N(0))
    ELSE IF b[1] < 0 THEN R(-(a[1] * b[2]), a[2] * (-b[1]))
    ELSE R(a[1] * b[2], a[2] * b[1])

\* a < b; every comparison with NaN is false
RLt(a, b) ==
    IF IsNaN(a) \/ IsNaN(b) THEN FALSE
    ELSE IF a[2] = 0 /\ b[2] = 0 THEN a[1] < b[1]
    ELSE a[1] * b[2] < b[1] * a[2]

RGt(a, b) == RLt(b, a)

RLe(a, b) == ~IsNaN(a) /\ ~IsNaN(b) /\ ~RLt(b, a)

RGe(a, b) == RLe(b, a)

\* a === b on numbers
REq(a, b) == ~IsNaN(a) /\ a = b

\* Math.abs
RAbs(a) == <<IAbs(a[1]), a[2]>>

\* Math.floor
RFloor(a) == IF IsFinite(a) THEN N(a[1] \div a[2]) ELSE a

\* the truth value of a number in a condition: 0 and NaN are falsy
Truthy(a) == ~IsNaN(a) /\ a # N(0)

\* conversion of a number stored into a Uint8ClampedArray element
ToUint8Clamped(a) ==
    IF IsNaN(a) THEN 0
    ELSE IF RLt(a, N(0)) THEN 0
    ELSE IF RGt(a, N(255)) THEN 255
    ELSE LET fl == a[1] \div a[2]
             twice == 2 * a[1] - 2 * fl * a[2]   \* 2 * fractional part * d
         IN  IF twice < a[2] THEN fl
             ELSE IF twice > a[2] THEN fl + 1
             ELSE IF fl % 2 = 0 THEN fl ELSE fl + 1

-----------------------------------------------------------------------------
(* Ray (ray.js) *)

\* Ray.init
RayInit(startX, startY, dirX, dirY, rayLength) ==
    LET mapX == RFloor(startX)[1]
        mapY == RFloor(startY)[1]
        deltaDistX == RAbs(RDiv(rayLength, dirX))
        deltaDistY == RAbs(RDiv(rayLength, dirY))
        stepX == IF RLt(dirX, N(0)) THEN -1 ELSE 1
        stepY == IF RLt(dirY, N(0)) THEN -1 ELSE 1
        sideDistX == IF RLt(dirX, N(0))
                     THEN RMul(RSub(startX, N(mapX)), deltaDistX)
                     ELSE RMul(RSub(N(mapX + 1), startX), deltaDistX)
        sideDistY == IF RLt(dirY, N(0))
                     THEN RMul(RSub(startY, N(mapY)), deltaDistY)
                     ELSE RMul(RSub(N(mapY + 1), startY), deltaDistY)
        side == IF RGt(sideDistX, sideDistY) THEN 1 ELSE 0
        face == IF side = 0 THEN (IF stepX < 0 THEN 3 ELSE 1)
                ELSE (IF stepY < 0 THEN 0 ELSE 2)
    IN  [mapX |-> mapX, mapY |-> mapY,
         sideDistX |-> sideDistX, sideDistY |-> sideDistY,
         stepX |-> stepX, stepY |-> stepY,
         deltaDistX |-> deltaDistX, deltaDistY |-> deltaDistY,
         hit |-> 0, side |-> side, face |-> face, distance |-> N(0)]

\* the bounds check with the upper bounds off by one
OutOfMapBoundsOffByOne(mapX, mapY, worldMap) ==
    \/ mapX < 0
    \/ mapY < 0
    \/ mapX > worldMap.width
    \/ mapY > worldMap.height

\* the bounds check of Ray.cast
OutOfMapBounds(mapX, mapY, worldMap) ==
    \/ mapX < 0
    \/ mapY < 0
    \/ mapX >= worldMap.width
    \/ mapY >= worldMap.height

\* the value of a read outside an array (undefined); cell ids are >= 0
Undefined == -1

\* worldMap.data[i]; the data array is 0-based in the source
MapData(worldMap, i) ==
    IF i + 1 \in DOMAIN worldMap.data THEN worldMap.data[i + 1] ELSE Undefined

\* the index with the rows laid out by the map's height
CellIndexByHeight(mapX, mapY, worldMap) == mapX + mapY * worldMap.height

\* the index of cell (mapX, mapY) in worldMap.data
CellIndex(mapX, mapY, worldMap) == mapX + mapY * worldMap.width

\* the body of the DDA loop without the step to the next cell
CastStepInPlace(st, worldMap) ==
    [st EXCEPT !.out = OutOfMapBounds(st.r.mapX, st.r.mapY, worldMap)]

\* one iteration of the DDA loop of Ray.cast: the step, then the bounds check,
\* then the read.  st = [r, reads, visited, out]
CastStep(st, worldMap) ==
    LET r == st.r
        stepped ==
            IF RGt(r.sideDistX, r.sideDistY)
            THEN [r EXCEPT !.mapY = r.mapY + r.stepY,
                           !.sideDistY = RAdd(r.sideDistY, r.deltaDistY),
                           !.side = 1]
            ELSE [r EXCEPT !.mapX = r.mapX + r.stepX,
                           !.sideDistX = RAdd(r.sideDistX, r.deltaDistX),
                           !.side = 0]
        cell == <<stepped.mapX, stepped.mapY>>
        index == CellIndex(stepped.mapX, stepped.mapY, worldMap)
    IN  IF OutOfMapBounds(stepped.mapX, stepped.mapY, worldMap)
        THEN [r |-> stepped, reads |-> st.reads,
              visited |-> Append(st.visited, cell), out |-> TRUE]
        ELSE [r |-> [stepped EXCEPT !.hit = MapData(worldMap, index)],
              reads |-> Append(st.reads, [mapX |-> stepped.mapX,
                                          mapY |-> stepped.mapY,
                                          index |-> index]),
              visited |-> Append(st.visited, cell), out |-> FALSE]

\* while (this.hit === 0) { ... break when out of bounds ... }
RECURSIVE CastLoop(_, _)
CastLoop(st, worldMap) ==
    IF st.r.hit # 0 \/ st.out THEN st
    ELSE CastLoop(CastStep(st, worldMap), worldMap)

\* the distance and face computed after the loop of Ray.cast
CastFinish(r) ==
    IF r.side = 0
    THEN [r EXCEPT !.distance = RSub(r.sideDistX, r.deltaDistX),
                   !.face = IF r.stepX < 0 THEN 3 ELSE 1]
    ELSE [r EXCEPT !.distance = RSub(r.sideDistY, r.deltaDistY),
                   !.face = IF r.stepY < 0 THEN 0 ELSE 2]

\* a cast that leaves the hit of the call before in place
RayCastKeepingHit(r, worldMap) ==
    LET st == CastLoop([r |-> r, reads |-> <<>>,
                        visited |-> <<<<r.mapX, r.mapY>>>>, out |-> FALSE],
                       worldMap)
    IN  [r |-> CastFinish(st.r), reads |-> st.reads, visited |-> st.visited]

\* Ray.cast: the ray after the call, with the reads and the cells visited
RayCast(r, worldMap) ==
    LET st == CastLoop([r |-> [r EXCEPT !.hit = 0], reads |-> <<>>,
                        visited |-> <<<<r.mapX, r.mapY>>>>, out |-> FALSE],
                       worldMap)
    IN  [r |-> CastFinish(st.r), reads |-> st.reads, visited |-> st.visited]

-----------------------------------------------------------------------------
(* Bounds of the model *)

\* render dimensions of the modelled Screen
RenderWidth == 2
RenderHeight == 6

\* cast() calls made on the user's ray
MaxCasts == 4

\* calls made on an object used on its own
MaxCalls == 3

-----------------------------------------------------------------------------
(* Color (color.js) and Texture (texture.js) *)

\* new Color(r, g, b, a)
Color(r, g, b, a) ==
    [kind |-> "Color", red |-> r, blue |-> g, green |-> b, alpha |-> a]

\* a Texture object: pixels is undefined (the empty sequence) until loaded
Texture(hasLoaded, width, height, pixels, temporaryColor) ==
    [kind |-> "Texture", hasLoaded |-> hasLoaded, width |-> width,
     height |-> height, pixels |-> IF hasLoaded THEN pixels ELSE <<>>,
     temporaryColor |-> temporaryColor]

\* obj.name as a number: a property the object does not have is undefined,
\* which is NaN in arithmetic
Prop(obj, name) == IF name \in DOMAIN obj THEN N(obj[name]) ELSE NaN

\* appearance.hasLoaded === false
HasLoadedIsFalse(appearance) ==
    "hasLoaded" \in DOMAIN appearance /\ appearance.hasLoaded = FALSE

\* appearance.hasLoaded as a condition (undefined on a Color)
HasLoadedTruthy(appearance) ==
    "hasLoaded" \in DOMAIN appearance /\ appearance.hasLoaded = TRUE

\* texture.pixels[i] (0-based) as a number; undefined outside the array
TexPixel(texture, i) ==
    IF IsFinite(i) /\ IsInt(i) /\ i[1] >= 0 /\ i[1] < Len(texture.pixels)
    THEN N(texture.pixels[i[1] + 1])
    ELSE NaN

-----------------------------------------------------------------------------
(* Screen (screen.js) *)

NumPixels(s) == s.renderWidth * s.renderHeight

EmptyImageData(s) == [i \in 0 .. (4 * NumPixels(s) - 1) |-> 0]

\* the screen as the constructor leaves it
NewScreen(renderWidth, renderHeight) ==
    LET dims == [renderWidth |-> renderWidth, renderHeight |-> renderHeight]
    IN  [renderWidth |-> renderWidth,
         renderHeight |-> renderHeight,
         aspectRatio |-> R(renderWidth, renderHeight),
         canvas |-> EmptyImageData(dims),
         pixels |-> EmptyImageData(dims),
         depthBuffer |-> [i \in 0 .. (NumPixels(dims) - 1) |-> Infinity]]

\* a clear that leaves the depth buffer as it is
ResetDepthBufferKept(s) == s.depthBuffer

\* the reset of the depth buffer in Screen.clear
ResetDepthBuffer(s) == [i \in 0 .. (NumPixels(s) - 1) |-> Infinity]

\* Screen.clear
ScreenClear(s) ==
    [s EXCEPT !.canvas = EmptyImageData(s),
              !.pixels = EmptyImageData(s),
              !.depthBuffer = ResetDepthBuffer(s)]

\* Screen.setPixels
ScreenSetPixels(s) == [s EXCEPT !.pixels = s.canvas]

\* Screen.update
ScreenUpdate(s) == [s EXCEPT !.canvas = s.pixels]

\* the four bytes of pixel index of a byte array, none past its ends
PixelAt(bytes, index) ==
    IF 4 * index \in DOMAIN bytes /\ 4 * index + 3 \in DOMAIN bytes
    THEN <<bytes[4 * index], bytes[4 * index + 1],
           bytes[4 * index + 2], bytes[4 * index + 3]>>
    ELSE <<>>

\* depthBuffer[index]: past the ends of the array the read gives undefined,
\* which every comparison of the renderer treats as it treats NaN
DepthAt(buffer, index) ==
    IF index \in DOMAIN buffer THEN buffer[index] ELSE NaN

\* depthBuffer[index] = depth: a plain array takes an element at any index
StoreDepth(buffer, index, depth) ==
    IF index \in DOMAIN buffer THEN [buffer EXCEPT ![index] = depth]
    ELSE (index :> depth) @@ buffer

\* writes of four values to pixels[index * 4 .. index * 4 + 3]
SetPixel(bytes, index, red, green, blue, alpha) ==
    [bytes EXCEPT ![4 * index] = ToUint8Clamped(red),
                  ![4 * index + 1] = ToUint8Clamped(green),
                  ![4 * index + 2] = ToUint8Clamped(blue),
                  ![4 * index + 3] = ToUint8Clamped(alpha)]

-----------------------------------------------------------------------------
(* Renderer helpers (renderer.js) *)

\* calculateLightingScalar; side is 0 or 1 for walls and NoSide (undefined)
\* for the other passes
NoSide == 2

\* the brightness over the depth as it is handed in
LightingOverCameraDepth(cam, depth) == RDiv(cam.lighting.brightness, depth)

\* camera.lighting.brightness / (depth * camera.focalLength)
LightingBeforeClamps(cam, depth) ==
    RDiv(cam.lighting.brightness, RMul(depth, cam.focalLength))

\* a clamp that lets every value through
LightingUnclamped(lighting, maxBrightness) == lighting

\* if (lighting > camera.lighting.maxBrightness) lighting = maxBrightness
LightingClampAbove(lighting, maxBrightness) ==
    IF RGt(lighting, maxBrightness) THEN maxBrightness ELSE lighting

\* if (lighting < scene.lighting.ambientLight) lighting = ambientLight
LightingClampBelow(lighting, ambientLight) ==
    IF RLt(lighting, ambientLight) THEN ambientLight ELSE lighting

\* the lighting value after both clamps, before the side shade is subtracted
LightingBeforeSideShade(sc, cam, depth) ==
    LightingClampBelow(
        LightingClampAbove(LightingBeforeClamps(cam, depth),
                           cam.lighting.maxBrightness),
        sc.lighting.ambientLight)

calculateLightingScalar(sc, cam, depth, side) ==
    IF ~sc.lighting.enabled THEN [r |-> N(1), g |-> N(1), b |-> N(1)]
    ELSE
    LET l2 == LightingBeforeSideShade(sc, cam, depth)
        lighting == IF side = 1 THEN RSub(l2, sc.lighting.sideShade) ELSE l2
    IN  [r |-> RDiv(RMul(lighting, Prop(cam.lighting.color, "red")), N(255)),
         g |-> RDiv(RMul(lighting, Prop(cam.lighting.color, "green")), N(255)),
         b |-> RDiv(RMul(lighting, Prop(cam.lighting.color, "blue")), N(255))]

\* no texel was computed for the pixel
NoTexel == <<>>

\* one entry of the draw log: a pixel a pass considered; texel is the texture
\* coordinate <<texX, texY>> the pass computed for it
Attempt(tag, kind, x, y, index, depth, lighting, alpha, texRead, written, s, s2) ==
    [pass |-> tag.pass, appearance |-> tag.appearance, surface |-> tag.surface,
     texel |-> IF "texel" \in DOMAIN tag THEN tag.texel ELSE NoTexel,
     kind |-> kind, x |-> x, y |-> y, index |-> index,
     depth |-> depth, lighting |-> lighting, alpha |-> alpha,
     texRead |-> texRead, written |-> written,
     stored |-> DepthAt(s.depthBuffer, index), pixel |-> PixelAt(s.pixels, index),
     depthAfter |-> DepthAt(s2.depthBuffer, index),
     pixelAfter |-> PixelAt(s2.pixels, index)]

\* if (startY < 0) startY = 0
ClipStartY(startY) == IF RLt(startY, N(0)) THEN N(0) ELSE startY

\* a column end left as it was handed in
KeepEndY(endY, s) == endY

\* if (endY > screen.renderHeight) endY = screen.renderHeight
ClipEndY(endY, s) ==
    IF RGt(endY, N(s.renderHeight)) THEN N(s.renderHeight) ELSE endY

\* the depth test of drawColoredColumn: TRUE when the pixel is not drawn
ColoredColumnOccluded(depth, stored) == Truthy(depth) /\ RLt(stored, depth)

\* the depth test of drawTexturedColumn: TRUE when the pixel is not drawn
TexturedColumnOccluded(depth, stored) == Truthy(depth) /\ RLe(stored, depth)

\* the body of the loop of drawColoredColumn for row y; st = [screen, log]
ColoredPixel(st, x, color, y, depth, lighting, tag) ==
    LET s == st.screen
        index == x + y * s.renderWidth
    IN  IF ColoredColumnOccluded(depth, DepthAt(s.depthBuffer, index))
        THEN [st EXCEPT !.log = Append(@, Attempt(tag, "colored", x, y, index,
                    depth, lighting, 255, FALSE, FALSE, s, s))]
        ELSE
        LET s2 == [s EXCEPT
                !.pixels = SetPixel(@, index,
                    RFloor(RMul(Prop(color, "red"), lighting.r)),
                    RFloor(RMul(Prop(color, "green"), lighting.g)),
                    RFloor(RMul(Prop(color, "blue"), lighting.b)),
                    N(255)),
                !.depthBuffer = StoreDepth(@, index, depth)]
        IN  [screen |-> s2,
             log |-> Append(st.log, Attempt(tag, "colored", x, y, index,
                    depth, lighting, 255, FALSE, TRUE, s, s2))]

\* for (let y = startY; y < endY; y++) of drawColoredColumn
RECURSIVE ColoredRows(_, _, _, _, _, _, _, _)
ColoredRows(st, x, color, y, endY, depth, lighting, tag) ==
    IF ~RLt(N(y), endY) THEN st
    ELSE ColoredRows(ColoredPixel(st, x, color, y, depth, lighting, tag),
                     x, color, y + 1, endY, depth, lighting, tag)

\* drawColoredColumn(screen, x, color, startY, endY, depth, lighting)
drawColoredColumn(st, x, color, startY, endY, depth, lighting, tag) ==
    LET start == ClipStartY(startY)
        end == ClipEndY(endY, st.screen)
    IN  IF ~IsFinite(start) THEN st
        ELSE ColoredRows(st, x, color, start[1], end, depth, lighting, tag)

\* a texel test that lets every texel through
TexelSkippedNever(texture, texIndex) == FALSE

\* texture.pixels[texIndex + 3] !== 255
TexelSkipped(texture, texIndex) ==
    TexPixel(texture, RAdd(texIndex, N(3))) # N(255)

\* the body of the loop of drawTexturedColumn for row y at texture position
\* texPosY; st = [screen, log]
TexturedPixel(st, x, texture, texX, y, texPosY, depth, lighting, tag) ==
    LET s == st.screen
        index == x + y * s.renderWidth
        texY == RFloor(texPosY)
        texIndex == RMul(RAdd(texX, RMul(texY, Prop(texture, "width"))), N(4))
        alpha == TexPixel(texture, RAdd(texIndex, N(3)))
        alphaByte == IF IsFinite(alpha) THEN alpha[1] ELSE Undefined
        read == [texel |-> <<texX, texY>>] @@ tag
    IN  IF TexturedColumnOccluded(depth, DepthAt(s.depthBuffer, index))
        THEN [st EXCEPT !.log = Append(@, Attempt(tag, "textured", x, y, index,
                    depth, lighting, 255, FALSE, FALSE, s, s))]
        ELSE IF TexelSkipped(texture, texIndex)
        THEN [st EXCEPT !.log = Append(@, Attempt(read, "textured", x, y, index,
                    depth, lighting, alphaByte, TRUE, FALSE, s, s))]
        ELSE
        LET s2 == [s EXCEPT
                !.pixels = SetPixel(@, index,
                    RFloor(RMul(TexPixel(texture, texIndex), lighting.r)),
                    RFloor(RMul(TexPixel(texture, RAdd(texIndex, N(1))), lighting.g)),
                    RFloor(RMul(TexPixel(texture, RAdd(texIndex, N(2))), lighting.b)),
                    N(255)),
                !.depthBuffer = StoreDepth(@, index, depth)]
        IN  [screen |-> s2,
             log |-> Append(st.log, Attempt(read, "textured", x, y, index,
                    depth, lighting, alphaByte, TRUE, TRUE, s, s2))]

\* for (let y = startY; y < endY; y++) of drawTexturedColumn; texPosY grows
\* by step on every iteration
RECURSIVE TexturedRows(_, _, _, _, _, _, _, _, _, _, _)
TexturedRows(st, x, texture, texX, y, endY, texPosY, step, depth, lighting, tag) ==
    IF ~RLt(N(y), endY) THEN st
    ELSE TexturedRows(
            TexturedPixel(st, x, texture, texX, y, texPosY, depth, lighting, tag),
            x, texture, texX, y + 1, endY, RAdd(texPosY, step), step,
            depth, lighting, tag)

\* drawTexturedColumn(screen, x, texture, texX, startY, endY, depth, lighting)
drawTexturedColumn(st, x, texture, texX, startY, endY, depth, lighting, tag) ==
    LET step == RDiv(Prop(texture, "height"), RSub(endY, startY))
        texPosY == IF RLt(startY, N(0)) THEN RMul(RNeg(startY), step) ELSE N(0)
        start == ClipStartY(startY)
        end == ClipEndY(endY, st.screen)
    IN  IF ~IsFinite(start) THEN st
        ELSE TexturedRows(st, x, texture, texX, start[1], end, texPosY, step,
                          depth, lighting, tag)

-----------------------------------------------------------------------------
(* Renderer.renderWalls *)

Half == R(1, 2)

\* the ray direction of screen column x (also used by the skybox pass)
ColumnRayDir(s, cam, x) ==
    LET cameraX == RSub(RDiv(N(x), N(s.renderWidth)), Half)
    IN  [x |-> RAdd(RMul(cam.orientation.direction.x, cam.focalLength),
                    RMul(RMul(cam.plane.x, s.aspectRatio), cameraX)),
         y |-> RAdd(RMul(cam.orientation.direction.y, cam.focalLength),
                    RMul(RMul(cam.plane.y, s.aspectRatio), cameraX))]

\* Math.floor(screen.renderHeight / 2 + camera.pitch)
Horizon(s, cam) == RFloor(RAdd(RDiv(N(s.renderHeight), N(2)), cam.pitch))

\* lineHeight and columnCenter of the wall hit of ray r
WallLineHeight(s, r) == RDiv(N(s.renderHeight), r.distance)

WallColumnCenter(s, cam, r) ==
    RAdd(Horizon(s, cam),
         RMul(N(s.renderHeight),
              RDiv(RSub(cam.orientation.position.z, Half), r.distance)))

\* drawStart and drawEnd of the wall hit of ray r on a cell with wallInfo
WallDrawStart(s, cam, r, wallInfo) ==
    RFloor(RSub(WallColumnCenter(s, cam, r),
                RSub(RMul(WallLineHeight(s, r), wallInfo.height),
                     RDiv(WallLineHeight(s, r), N(2)))))

WallDrawEnd(s, cam, r) ==
    RFloor(RAdd(WallColumnCenter(s, cam, r), RDiv(WallLineHeight(s, r), N(2))))

\* the projection and drawing of one wall hit (the body of the cast loop
\* after the two early exits)
DrawWallHit(st, sc, cam, r, x, rayDir) ==
    LET s == st.screen
        wallInfo == sc.worldMap.cellInfo[r.hit]
        drawStart == WallDrawStart(s, cam, r, wallInfo)
        drawEnd == WallDrawEnd(s, cam, r)
        lighting == calculateLightingScalar(sc, cam, r.distance, r.side)
        tag == [pass |-> "walls", appearance |-> wallInfo.appearance,
                surface |-> r.distance]
    IN  IF ~HasLoadedTruthy(wallInfo.appearance)
        THEN LET color == IF wallInfo.appearance.kind = "Texture"
                          THEN wallInfo.appearance.temporaryColor
                          ELSE wallInfo.appearance
             IN  drawColoredColumn(st, x, color, drawStart, drawEnd,
                                   r.distance, lighting, tag)
        ELSE LET hitAt == IF r.side = 0
                          THEN RAdd(cam.orientation.position.y,
                                    RMul(r.distance, rayDir.y))
                          ELSE RAdd(cam.orientation.position.x,
                                    RMul(r.distance, rayDir.x))
                 wallX == RSub(hitAt, RFloor(hitAt))
                 width == Prop(wallInfo.appearance, "width")
                 texX0 == RFloor(RMul(wallX, width))
                 texX1 == IF r.side = 0 /\ RGt(rayDir.x, N(0))
                          THEN RSub(RSub(width, texX0), N(1)) ELSE texX0
                 texX == IF r.side = 1 /\ RLt(rayDir.y, N(0))
                         THEN RSub(RSub(width, texX1), N(1)) ELSE texX1
             IN  drawTexturedColumn(st, x, wallInfo.appearance, texX,
                                    drawStart, drawEnd, r.distance, lighting, tag)

\* the cast loop stopped at the first cell without cellInfo
WallLoopControlStopAtUndefined(hit, worldMap) ==
    IF hit = 0 \/ hit \notin DOMAIN worldMap.cellInfo THEN "break" ELSE "draw"

\* what the cast loop does with the cell the ray hit: if (ray.hit === 0)
\* break; if (wallInfo === undefined) continue; otherwise the hit is drawn
WallLoopControl(hit, worldMap) ==
    IF hit = 0 THEN "break"
    ELSE IF hit \notin DOMAIN worldMap.cellInfo THEN "continue"
    ELSE "draw"

\* while (1) { ray.cast(); ... } for one screen column
RECURSIVE WallCastLoop(_, _, _, _, _, _)
WallCastLoop(st, sc, cam, r, x, rayDir) ==
    LET r2 == RayCast(r, sc.worldMap).r
    IN  IF WallLoopControl(r2.hit, sc.worldMap) = "break" THEN st
        ELSE IF WallLoopControl(r2.hit, sc.worldMap) = "continue"
        THEN WallCastLoop(st, sc, cam, r2, x, rayDir)
        ELSE WallCastLoop(DrawWallHit(st, sc, cam, r2, x, rayDir),
                          sc, cam, r2, x, rayDir)

\* for (let x = 0; x < screen.renderWidth; x++) of renderWalls
RECURSIVE WallColumns(_, _, _, _)
WallColumns(st, sc, cam, x) ==
    IF x >= st.screen.renderWidth THEN st
    ELSE LET rayDir == ColumnRayDir(st.screen, cam, x)
             r == RayInit(cam.orientation.position.x,
                          cam.orientation.position.y, rayDir.x, rayDir.y, N(1))
         IN  WallColumns(WallCastLoop(st, sc, cam, r, x, rayDir), sc, cam, x + 1)

renderWalls(st, sc, cam) == WallColumns(st, sc, cam, 0)

-----------------------------------------------------------------------------
(* Renderer.renderEntities *)

\* the clamp of a column bound to [0, renderWidth]
ClampColumn(c, s) ==
    IF RLt(c, N(0)) THEN N(0)
    ELSE IF RGt(c, N(s.renderWidth)) THEN N(s.renderWidth)
    ELSE c

\* the color handed to drawColoredColumn for an entity drawn as a color
EntityColor(entity) == entity.appearance

\* for (let x = columnStart; x < columnEnd; x++) of renderEntities
RECURSIVE EntityColumns(_, _, _, _, _, _)
EntityColumns(st, entity, g, x, lighting, tag) ==
    IF ~RLt(N(x), g.columnEnd) THEN st
    ELSE IF g.appearanceIsColor
    THEN EntityColumns(
            drawColoredColumn(st, x, EntityColor(entity), g.drawStartY,
                              g.drawEndY, g.transformY, lighting, tag),
            entity, g, x + 1, lighting, tag)
    ELSE LET texX == RFloor(RMul(RDiv(RSub(N(x), g.drawStartX),
                                      RSub(g.drawEndX, g.drawStartX)),
                                 Prop(entity.appearance, "width")))
         IN  EntityColumns(
                drawTexturedColumn(st, x, entity.appearance, texX, g.drawStartY,
                                   g.drawEndY, g.transformY, lighting, tag),
                entity, g, x + 1, lighting, tag)

\* the camera-space transform and the screen rectangle of one entity
EntityGeometry(s, cam, entity) ==
    LET entityX == RSub(entity.orientation.position.x, cam.orientation.position.x)
        entityY == RSub(entity.orientation.position.y, cam.orientation.position.y)
        dirX == RMul(cam.orientation.direction.x, cam.focalLength)
        dirY == RMul(cam.orientation.direction.y, cam.focalLength)
        planeX == RDiv(RMul(cam.plane.x, s.aspectRatio), N(2))
        planeY == RDiv(RMul(cam.plane.y, s.aspectRatio), N(2))
        invDet == RDiv(N(1), RSub(RMul(planeX, dirY), RMul(dirX, planeY)))
        transformX == RMul(invDet, RSub(RMul(dirY, entityX), RMul(dirX, entityY)))
        transformY == RMul(invDet, RAdd(RMul(RNeg(planeY), entityX),
                                        RMul(planeX, entityY)))
        entityScreenX == RMul(RDiv(RAdd(RDiv(transformX, transformY), N(1)), N(2)),
                              N(s.renderWidth))
        entityScreenY ==
            RSub(Horizon(s, cam),
                 RMul(RDiv(RSub(RAdd(entity.orientation.position.z,
                                     RDiv(RSub(entity.size.y, N(1)), N(2))),
                                RSub(cam.orientation.position.z, Half)),
                           transformY),
                      N(s.renderHeight)))
        entityHeight == RMul(RDiv(entity.size.y, transformY), N(s.renderHeight))
        entityWidth == RDiv(RMul(RDiv(entity.size.x, transformY), N(s.renderWidth)),
                            s.aspectRatio)
        drawStartX == RFloor(RSub(entityScreenX, RDiv(entityWidth, N(2))))
        drawEndX == RFloor(RAdd(entityScreenX, RDiv(entityWidth, N(2))))
    IN  [transformX |-> transformX, transformY |-> transformY,
         drawStartX |-> drawStartX, drawEndX |-> drawEndX,
         drawStartY |-> RFloor(RSub(entityScreenY, RDiv(entityHeight, N(2)))),
         drawEndY |-> RFloor(RAdd(entityScreenY, RDiv(entityHeight, N(2)))),
         columnStart |-> ClampColumn(drawStartX, s),
         columnEnd |-> ClampColumn(drawEndX, s),
         appearanceIsColor |-> \/ entity.appearance.kind = "Color"
                               \/ HasLoadedIsFalse(entity.appearance)]

\* a pass over the entities that skips none
EntityBehindCameraNever(transformY) == FALSE

\* if (transformY < 0) continue
EntityBehindCamera(transformY) == RLt(transformY, N(0))

\* the body of the loop over the entities
DrawEntity(st, sc, cam, entity) ==
    LET g == EntityGeometry(st.screen, cam, entity)
        lighting == calculateLightingScalar(sc, cam, g.transformY, NoSide)
        tag == [pass |-> "entities", appearance |-> entity.appearance,
                surface |-> g.transformY]
    IN  IF EntityBehindCamera(g.transformY) THEN st
        ELSE IF ~IsFinite(g.columnStart) THEN st
        ELSE EntityColumns(st, entity, g, g.columnStart[1], lighting, tag)

RECURSIVE EntityLoop(_, _, _, _)
EntityLoop(st, sc, cam, i) ==
    IF i > Len(sc.gameObject.entities) THEN st
    ELSE EntityLoop(DrawEntity(st, sc, cam, sc.gameObject.entities[i]),
                    sc, cam, i + 1)

renderEntities(st, sc, cam) == EntityLoop(st, sc, cam, 1)

-----------------------------------------------------------------------------
(* Renderer.renderFloorCeiling *)

\* the row distance that replaces Infinity
FarRowDistance == 1000

\* a % b of JavaScript: the remainder has the sign of a
RMod(a, b) ==
    IF IsNaN(a) \/ IsNaN(b) \/ ~IsFinite(a) \/ b = N(0) THEN NaN
    ELSE IF ~IsFinite(b) THEN a
    ELSE LET q == RDiv(RAbs(a), RAbs(b))
             t == N(q[1] \div q[2])
             m == RSub(RAbs(a), RMul(t, RAbs(b)))
         IN  IF a[1] < 0 THEN RNeg(m) ELSE m

\* the clamp of a row bound to [0, height]
ClampRow(row, height) ==
    IF RGt(row, N(height)) THEN N(height)
    ELSE IF RLt(row, N(0)) THEN N(0)
    ELSE row

\* let isFloor = y >= horizon
IsFloorRow(y, horizon) == RGe(N(y), horizon)

\* if (screen.depthBuffer[index] <= rowDistance) continue
PlaneOccluded(stored, rowDistance) == RLe(stored, rowDistance)

\* the appearance a plane is drawn with
PlaneAppearance(plane) ==
    IF HasLoadedIsFalse(plane.appearance)
    THEN plane.appearance.temporaryColor
    ELSE plane.appearance

\* the per-row values of renderFloorCeiling for row y
FloorRow(s, sc, cam, y) ==
    LET height == s.renderHeight
        horizon == Horizon(s, cam)
        isFloor == IsFloorRow(y, horizon)
        plane == IF isFloor THEN sc.floor ELSE sc.ceiling
        p == RSub(N(y), horizon)
        posZ == IF isFloor
                THEN RMul(cam.orientation.position.z, N(height))
                ELSE RMul(N(height),
                          RSub(sc.ceiling.height, cam.orientation.position.z))
        rowDistance0 == RAbs(RDiv(posZ, p))
        rowDistance == IF rowDistance0 = Infinity
                       THEN N(FarRowDistance) ELSE rowDistance0
        dirX == RMul(cam.orientation.direction.x, cam.focalLength)
        dirY == RMul(cam.orientation.direction.y, cam.focalLength)
        halfPlaneX == RMul(RMul(cam.plane.x, s.aspectRatio), Half)
        halfPlaneY == RMul(RMul(cam.plane.y, s.aspectRatio), Half)
        rayDirLX == RSub(dirX, halfPlaneX)
        rayDirLY == RSub(dirY, halfPlaneY)
        rayDirRX == RAdd(dirX, halfPlaneX)
        rayDirRY == RAdd(dirY, halfPlaneY)
    IN  [isFloor |-> isFloor,
         source |-> plane.appearance,
         appearance |-> PlaneAppearance(plane),
         cellWidth |-> plane.cellWidth,
         cellHeight |-> plane.cellHeight,
         rowDistance |-> rowDistance,
         floorStepX |-> RMul(RSub(rayDirRX, rayDirLX),
                             RDiv(rowDistance, N(s.renderWidth))),
         floorStepY |-> RMul(RSub(rayDirRY, rayDirLY),
                             RDiv(rowDistance, N(s.renderWidth))),
         floorX |-> RAdd(cam.orientation.position.x, RMul(rayDirLX, rowDistance)),
         floorY |-> RAdd(cam.orientation.position.y, RMul(rayDirLY, rowDistance)),
         lighting |-> calculateLightingScalar(sc, cam, rowDistance, NoSide)]

\* Math.floor(appearance.width * Math.abs(floorX % cellWidth / cellWidth))
PlaneTexel(size, coordinate, cellSize) ==
    RFloor(RMul(size, RAbs(RDiv(RMod(coordinate, cellSize), cellSize))))

\* the body of the inner loop for pixel (x, y) at world position (floorX, floorY)
PlanePixel(st, row, x, y, floorX, floorY) ==
    LET s == st.screen
        index == x + y * s.renderWidth
        appearance == row.appearance
        lighting == row.lighting
        isColor == appearance.kind = "Color"
        tx == PlaneTexel(Prop(appearance, "width"), floorX, row.cellWidth)
        ty == PlaneTexel(Prop(appearance, "height"), floorY, row.cellHeight)
        tag == IF isColor
               THEN [pass |-> "floorCeiling", appearance |-> row.source,
                     surface |-> row.rowDistance]
               ELSE [pass |-> "floorCeiling", appearance |-> row.source,
                     surface |-> row.rowDistance, texel |-> <<tx, ty>>]
        texIndex == RMul(RAdd(tx, RMul(ty, Prop(appearance, "width"))), N(4))
        red == IF isColor THEN Prop(appearance, "red")
               ELSE TexPixel(appearance, texIndex)
        green == IF isColor THEN Prop(appearance, "green")
                 ELSE TexPixel(appearance, RAdd(texIndex, N(1)))
        blue == IF isColor THEN Prop(appearance, "blue")
                ELSE TexPixel(appearance, RAdd(texIndex, N(2)))
    IN  IF PlaneOccluded(DepthAt(s.depthBuffer, index), row.rowDistance)
        THEN [st EXCEPT !.log = Append(@, Attempt(tag, "plane", x, y, index,
                    row.rowDistance, lighting, 255, FALSE, FALSE, s, s))]
        ELSE
        LET s2 == [s EXCEPT
                !.pixels = SetPixel(@, index,
                    RFloor(RMul(red, lighting.r)),
                    RFloor(RMul(green, lighting.g)),
                    RFloor(RMul(blue, lighting.b)),
                    N(255)),
                !.depthBuffer = StoreDepth(@, index, row.rowDistance)]
        IN  [screen |-> s2,
             log |-> Append(st.log, Attempt(tag, "plane", x, y, index,
                    row.rowDistance, lighting, 255, ~isColor, TRUE, s, s2))]

\* for (let x = 0; x < screen.renderWidth; x++) of renderFloorCeiling
RECURSIVE PlaneColumns(_, _, _, _, _, _)
PlaneColumns(st, row, x, y, floorX, floorY) ==
    IF x >= st.screen.renderWidth THEN st
    ELSE PlaneColumns(PlanePixel(st, row, x, y, floorX, floorY), row, x + 1, y,
                      RAdd(floorX, row.floorStepX), RAdd(floorY, row.floorStepY))

\* for (let y = rowStart; y < rowEnd; y++) of renderFloorCeiling
RECURSIVE PlaneRows(_, _, _, _, _)
PlaneRows(st, sc, cam, y, rowEnd) ==
    IF ~RLt(N(y), rowEnd) THEN st
    ELSE LET row == FloorRow(st.screen, sc, cam, y)
         IN  PlaneRows(PlaneColumns(st, row, 0, y, row.floorX, row.floorY),
                       sc, cam, y + 1, rowEnd)

renderFloorCeiling(st, sc, cam) ==
    LET height == st.screen.renderHeight
        horizon == Horizon(st.screen, cam)
        rowStart == ClampRow(IF sc.ceiling.enabled THEN N(0) ELSE horizon, height)
        rowEnd == ClampRow(IF sc.floor.enabled THEN N(height) ELSE horizon, height)
    IN  IF ~IsFinite(rowStart) THEN st
        ELSE PlaneRows(st, sc, cam, rowStart[1], rowEnd)

-----------------------------------------------------------------------------
(* Renderer.renderSkybox *)

\* the appearance the skybox is drawn with
SkyboxAppearance(sc) ==
    IF HasLoadedIsFalse(sc.skybox.appearance)
    THEN sc.skybox.appearance.temporaryColor
    ELSE sc.skybox.appearance

\* the depth argument the skybox pass hands to drawTexturedColumn
SkyboxDepth == N(0)

\* drawingContext.fillRect(0, 0, renderWidth, horizon) with the fill style
\* rgb(red, green, blue), on the canvas; pixels inside the rectangle become
\* opaque.  st = [screen, log]
RECURSIVE FillRect(_, _, _, _, _, _)
FillRect(st, index, horizon, red, green, blue) ==
    LET s == st.screen
        y == index \div s.renderWidth
    IN  IF index >= NumPixels(s) \/ ~RLt(N(y), horizon) THEN st
        ELSE FillRect([st EXCEPT !.screen.canvas =
                            SetPixel(@, index, red, green, blue, N(255))],
                      index + 1, horizon, red, green, blue)

\* the log entries of the pixels of the filled rectangle, once setPixels has
\* copied the canvas into screen.pixels
RECURSIVE LogFill(_, _, _, _, _, _)
LogFill(st, before, index, horizon, lighting, tag) ==
    LET s == st.screen
        y == index \div s.renderWidth
    IN  IF index >= NumPixels(s) \/ ~RLt(N(y), horizon) THEN st
        ELSE LogFill([st EXCEPT !.log = Append(@, Attempt(tag, "fill",
                            index % s.renderWidth, y, index,
                            before.depthBuffer[index], lighting, 255, FALSE, TRUE,
                            before, s))],
                     before, index + 1, horizon, lighting, tag)

\* the Color branch of renderSkybox
SkyboxColor(st, sc, cam, appearance) ==
    LET ambient == sc.lighting.ambientLight
        filled == FillRect(st, 0, Horizon(st.screen, cam),
                           RMul(Prop(appearance, "red"), ambient),
                           RMul(Prop(appearance, "green"), ambient),
                           RMul(Prop(appearance, "blue"), ambient))
        copied == [filled EXCEPT !.screen = ScreenSetPixels(@)]
        tag == [pass |-> "skybox", appearance |-> sc.skybox.appearance,
                surface |-> Infinity]
    IN  LogFill(copied, st.screen, 0, Horizon(st.screen, cam),
                [r |-> ambient, g |-> ambient, b |-> ambient], tag)

\* the body of the loop over the columns in the Texture branch of renderSkybox
SkyboxColumn(st, sc, cam, appearance, c) ==
    LET rayDir == ColumnRayDir(st.screen, cam, c)
        r == RayInit(Half, Half, rayDir.x, rayDir.y, N(1))
        useX == RLt(r.sideDistX, r.sideDistY)
        hitAt == IF useX THEN RAdd(Half, RMul(r.sideDistX, rayDir.y))
                 ELSE RAdd(Half, RMul(r.sideDistY, rayDir.x))
        perpWallDist == IF useX THEN RMul(r.sideDistX, N(2))
                        ELSE RMul(r.sideDistY, N(2))
        wallX == RSub(hitAt, RFloor(hitAt))
        texX == RFloor(RMul(wallX, Prop(appearance, "width")))
        columnHeight == RFloor(RDiv(Prop(appearance, "height"), perpWallDist))
        horizon == Horizon(st.screen, cam)
        ambient == sc.lighting.ambientLight
        tag == [pass |-> "skybox", appearance |-> sc.skybox.appearance,
                surface |-> Infinity]
    IN  drawTexturedColumn(st, c, appearance, texX, RSub(horizon, columnHeight),
                           horizon, SkyboxDepth,
                           [r |-> ambient, g |-> ambient, b |-> ambient], tag)

RECURSIVE SkyboxColumns(_, _, _, _, _)
SkyboxColumns(st, sc, cam, appearance, c) ==
    IF c >= st.screen.renderWidth THEN st
    ELSE SkyboxColumns(SkyboxColumn(st, sc, cam, appearance, c),
                       sc, cam, appearance, c + 1)

renderSkybox(st, sc, cam) ==
    LET appearance == SkyboxAppearance(sc)
    IN  IF appearance.kind = "Color" THEN SkyboxColor(st, sc, cam, appearance)
        ELSE SkyboxColumns(st, sc, cam, appearance, 0)

-----------------------------------------------------------------------------
(* Argument values and thrown errors *)

\* a value that is not a number (a string, say)
NotANumber == <<"string">>

\* typeof a === "number"
IsNumber(a) == Len(a) = 2

\* Number.isInteger(a)
IsInteger(a) == IsNumber(a) /\ IsFinite(a) /\ IsInt(a)

\* the result of a constructor or method call that threw
Thrown(message) == [threw |-> message]

HasThrown(obj) == "threw" \in DOMAIN obj

-----------------------------------------------------------------------------
(* Scene lighting (scene.js, checkLighting) *)

\* the flag left set whatever the two values are
LightingEnabledAlways(sideShade, ambientLight) == TRUE

\* lighting.enabled = !((lighting.sideShade === 0) && (lighting.ambientLight === 1))
LightingEnabled(sideShade, ambientLight) ==
    ~(REq(sideShade, N(0)) /\ REq(ambientLight, N(1)))

\* checkLighting(lighting): a value that is given must be a number; sideShade
\* defaults to 0 and ambientLight to 1
checkLighting(lighting) ==
    IF "sideShade" \in DOMAIN lighting /\ ~IsNumber(lighting.sideShade)
    THEN Thrown("Scene lighting.sideShade must be a number")
    ELSE IF "ambientLight" \in DOMAIN lighting /\ ~IsNumber(lighting.ambientLight)
    THEN Thrown("Scene lighting.ambientLight must be a number")
    ELSE
    LET sideShade == IF "sideShade" \in DOMAIN lighting
                     THEN lighting.sideShade ELSE N(0)
        ambientLight == IF "ambientLight" \in DOMAIN lighting
                        THEN lighting.ambientLight ELSE N(1)
    IN  [sideShade |-> sideShade, ambientLight |-> ambientLight,
         enabled |-> LightingEnabled(sideShade, ambientLight)]

-----------------------------------------------------------------------------
(* The scenes, cameras and rays of the model *)

Red == Color(255, 0, 0, 255)
Green == Color(0, 255, 0, 255)
Blue == Color(0, 0, 255, 255)
Grey == Color(90, 100, 110, 255)
Pink == Color(250, 130, 170, 255)
Transparent == Color(0, 0, 0, 0)

\* a 2 x 2 RGBA raster, row-major: texel (0,0) opaque, (1,0) fully
\* transparent, (0,1) with alpha 254, (1,1) opaque
TexelBytes ==
    <<200, 100, 50, 255,   10, 20, 30, 0,
      60, 70, 80, 254,     90, 110, 120, 255>>

LoadedTexture == Texture(TRUE, 2, 2, TexelBytes, Pink)
UnloadedTexture == Texture(FALSE, 2, 2, TexelBytes, Pink)

Appearances == {Green, LoadedTexture, UnloadedTexture}

\* a Scene worldMap as checkWorldMap leaves it; cell (x, y) is data[x + y*width]
EmptyWorldMap ==
    [width |-> 0, height |-> 0, data |-> <<>>, cellInfo |-> <<>>]

WorldMap(front, nearAppearance, withInfo) ==
    [width |-> 3, height |-> 4,
     data |-> <<0, 0, 0,
                0, front, 0,
                0, 1, 0,
                2, 2, 2>>,
     cellInfo |-> IF withInfo
                  THEN <<[height |-> Half, appearance |-> nearAppearance],
                         [height |-> N(1), appearance |-> Blue]>>
                  ELSE <<>>]

\* a wall of full height with a texture in front of a lower wall
TallNearWorldMap ==
    [WorldMap(0, LoadedTexture, TRUE) EXCEPT
        !.cellInfo = <<[height |-> N(1), appearance |-> LoadedTexture],
                       [height |-> R(3, 4), appearance |-> Blue]>>]

WorldMaps ==
    {EmptyWorldMap, WorldMap(0, Red, FALSE)}
    \cup {WorldMap(front, a, TRUE) :
            front \in {0, 3}, a \in {Red, LoadedTexture, UnloadedTexture}}

\* an Entity as its constructor leaves it
Entity(x, y, z, size, appearance) ==
    [appearance |-> appearance,
     orientation |-> [position |-> [x |-> x, y |-> y, z |-> z]],
     size |-> [x |-> size, y |-> size]]

\* entity depths seen from the camera at y = 1/2: behind the camera, nearer
\* than the near wall, at the near wall's depth, between the two walls
EntityYs == {R(1, 4), R(3, 2), N(2), R(11, 4)}

EntityLists ==
    {<<>>}
    \cup {<<Entity(R(3, 2), y, N(0), N(1), a)>> : y \in EntityYs, a \in Appearances}
    \cup {<<Entity(R(3, 2), N(2), N(0), N(1), Green),
            Entity(R(3, 2), R(3, 2), N(0), Half, LoadedTexture)>>}

\* entities on the camera plane (y = 1/2) to the left of, at and to the right
\* of the camera, one of them of negative size; an entity of negative size
\* behind the camera, whose rectangle would cover the screen; an entity in
\* front of the camera
OnPlaneEntities ==
    <<Entity(R(3, 2), Half, N(0), N(1), Green),
      Entity(R(5, 2), Half, N(0), N(1), LoadedTexture),
      Entity(Half, Half, N(0), N(-1), Green),
      Entity(R(3, 2), R(1, 4), N(1), N(-1), Green),
      Entity(R(3, 2), R(3, 2), N(0), N(1), Green)>>

\* an entity one unit in front of the camera and one right in front of it
NearEntities ==
    <<Entity(R(3, 2), R(3, 2), N(0), N(1), LoadedTexture),
      Entity(R(3, 2), R(33, 64), N(0), N(1), Green)>>

\* floor and ceiling as checkFloorCeiling leaves them
Plane(enabled, appearance) ==
    [enabled |-> enabled, appearance |-> appearance,
     cellWidth |-> N(1), cellHeight |-> N(1), height |-> N(1)]

PlanePairs ==
    {<<Plane(FALSE, Transparent), Plane(FALSE, Transparent)>>,
     <<Plane(TRUE, Grey), Plane(FALSE, Transparent)>>,
     <<Plane(TRUE, LoadedTexture), Plane(TRUE, Grey)>>,
     <<Plane(TRUE, UnloadedTexture), Plane(TRUE, UnloadedTexture)>>}

\* textured planes for a scene without walls, where every row is seen as far
\* as the horizon
OpenPlanePairs ==
    {<<Plane(TRUE, LoadedTexture), Plane(TRUE, LoadedTexture)>>,
     <<Plane(TRUE, LoadedTexture), Plane(FALSE, Transparent)>>,
     <<Plane(FALSE, Transparent), Plane(TRUE, LoadedTexture)>>}

\* the skybox as checkSkybox leaves it
Skyboxes ==
    {[enabled |-> FALSE, appearance |-> Transparent]}
    \cup {[enabled |-> TRUE, appearance |-> a] :
            a \in {Grey, LoadedTexture, UnloadedTexture}}

\* scene.lighting as checkLighting leaves it
Lighting(sideShade, ambientLight) ==
    checkLighting([sideShade |-> sideShade, ambientLight |-> ambientLight])

\* no lighting configuration (the defaults), the defaults given, and a dimmed
\* scene with shaded sides
Lightings ==
    {checkLighting([x \in {} |-> 0]), Lighting(N(0), N(1)),
     Lighting(R(1, 4), Half)}

Scene(worldMap, planes, entities, skybox, lighting) ==
    [worldMap |-> worldMap, floor |-> planes[1], ceiling |-> planes[2],
     gameObject |-> [entities |-> entities], skybox |-> skybox,
     lighting |-> lighting]

DefaultWorldMap == WorldMap(0, Red, TRUE)
DefaultPlanes == <<Plane(TRUE, Grey), Plane(FALSE, Transparent)>>
DefaultSkybox == [enabled |-> TRUE, appearance |-> LoadedTexture]

\* scenes whose entities stand on the camera plane and behind the camera
OnPlaneScenes ==
    {Scene(DefaultWorldMap, DefaultPlanes, OnPlaneEntities, k,
           Lighting(N(0), N(1))) :
        k \in {DefaultSkybox, [enabled |-> FALSE, appearance |-> Transparent]}}

\* scenes with an entity right in front of the camera
NearScenes ==
    {Scene(DefaultWorldMap, DefaultPlanes, NearEntities, k,
           Lighting(N(0), N(1))) :
        k \in {DefaultSkybox, [enabled |-> FALSE, appearance |-> Transparent]}}

\* scenes without walls, entities or skybox, whose planes are textured
OpenScenes ==
    {Scene(EmptyWorldMap, p, <<>>,
           [enabled |-> FALSE, appearance |-> Transparent],
           Lighting(N(0), N(1))) : p \in OpenPlanePairs}

\* the scenes of the model: every combination of world map and entities
\* with the default planes and skybox, every combination of planes and skybox
\* with the default map, with and without lighting; the map with the lower
\* wall behind with every skybox
Scenes ==
    {Scene(w, DefaultPlanes, e, k, l) :
        w \in WorldMaps, e \in EntityLists,
        k \in {DefaultSkybox}, l \in Lightings}
    \cup {Scene(DefaultWorldMap, p, e, k, Lighting(N(0), N(1))) :
        p \in PlanePairs, k \in Skyboxes,
        e \in {<<>>, <<Entity(R(3, 2), N(2), N(0), N(1), LoadedTexture)>>}}
    \cup {Scene(TallNearWorldMap, DefaultPlanes, <<>>, k, Lighting(N(0), N(1))) :
        k \in Skyboxes}
    \cup OnPlaneScenes
    \cup NearScenes
    \cup OpenScenes

\* the camera the renderer reads: position (3/2, 1/2, 1/2), looking along +y,
\* cameraPlane = (-direction.y, direction.x)
Camera(pitch) ==
    [orientation |-> [position |-> [x |-> R(3, 2), y |-> Half, z |-> Half],
                      direction |-> [x |-> N(0), y |-> N(1)]],
     focalLength |-> N(1),
     plane |-> [x |-> N(-1), y |-> N(0)],
     pitch |-> N(pitch),
     lighting |-> [brightness |-> N(1), maxBrightness |-> N(1),
                   color |-> Color(255, 255, 255, 255)]]

Cameras == {Camera(0), Camera(1)}

\* the camera moved to another position, set through camera.orientation
CameraAt(x, y, z) ==
    [Camera(0) EXCEPT !.orientation.position = [x |-> x, y |-> y, z |-> z]]

\* cameras pitched so far that the horizon leaves the screen
TiltedCameras == {Camera(RenderHeight), Camera(-RenderHeight)}

\* cameras standing at negative world coordinates, one of them on the floor
OpenCameras ==
    {CameraAt(R(-3, 2), R(-1, 2), Half), CameraAt(R(-3, 2), R(-1, 2), N(0))}

-----------------------------------------------------------------------------
(* Vector (vector.js) *)

\* the largest integer in lo .. hi whose square is at most v
RECURSIVE SqrtBetween(_, _, _)
SqrtBetween(lo, hi, v) ==
    IF lo >= hi THEN lo
    ELSE LET mid == (lo + hi + 1) \div 2
         IN  IF mid * mid <= v THEN SqrtBetween(mid, hi, v)
             ELSE SqrtBetween(lo, mid - 1, v)

\* the root of an integer below 2^31 is at most 46340
ISqrt(v) == SqrtBetween(0, IF v > 46340 THEN 46340 ELSE v, v)

\* the finite number a is the square of a rational number
HasRationalRoot(a) ==
    /\ IsFinite(a)
    /\ a[1] >= 0
    /\ ISqrt(a[1]) * ISqrt(a[1]) = a[1]
    /\ ISqrt(a[2]) * ISqrt(a[2]) = a[2]

\* Math.sqrt: exact where the root is rational, otherwise rounded down to a
\* multiple of 1/100
RSqrt(a) ==
    IF IsNaN(a) \/ RLt(a, N(0)) THEN NaN
    ELSE IF ~IsFinite(a) THEN a
    ELSE IF HasRationalRoot(a) THEN R(ISqrt(a[1]), ISqrt(a[2]))
    ELSE R(ISqrt((a[1] * 10000) \div a[2]), 100)

\* new Vector(x, y, z); a z that was not given is undefined, which the test
\* if (z) treats as NaN and 0
Vector(x, y, z) ==
    IF Truthy(z) THEN [x |-> x, y |-> y, z |-> z, is2d |-> FALSE]
    ELSE [x |-> x, y |-> y, z |-> N(0), is2d |-> TRUE]

NoZ == NaN

VectorAdd(v, w) ==
    [v EXCEPT !.x = RAdd(@, w.x), !.y = RAdd(@, w.y),
              !.z = IF ~v.is2d THEN RAdd(@, w.z) ELSE @]

VectorAddConst(v, num) ==
    [v EXCEPT !.x = RAdd(@, num), !.y = RAdd(@, num),
              !.z = IF ~v.is2d THEN RAdd(@, num) ELSE @]

VectorSubtract(v, w) ==
    [v EXCEPT !.x = RSub(@, w.x), !.y = RSub(@, w.y),
              !.z = IF ~v.is2d THEN RSub(@, w.z) ELSE @]

VectorSubtractConst(v, num) ==
    [v EXCEPT !.x = RSub(@, num), !.y = RSub(@, num),
              !.z = IF ~v.is2d THEN RSub(@, num) ELSE @]

VectorScale(v, scalar) ==
    [v EXCEPT !.x = RMul(@, scalar), !.y = RMul(@, scalar),
              !.z = IF ~v.is2d THEN RMul(@, scalar) ELSE @]

getMagSqr(v) ==
    IF v.is2d THEN RAdd(RMul(v.x, v.x), RMul(v.y, v.y))
    ELSE RAdd(RAdd(RMul(v.x, v.x), RMul(v.y, v.y)), RMul(v.z, v.z))

getMag(v) == RSqrt(getMagSqr(v))

VectorNormalize(v) ==
    LET mag == getMag(v)
    IN  IF REq(mag, N(0)) THEN v
        ELSE [v EXCEPT !.x = RDiv(@, mag), !.y = RDiv(@, mag),
                       !.z = IF ~v.is2d THEN RDiv(@, mag) ELSE @]

VectorSetMag(v, newMag) == VectorScale(VectorNormalize(v), newMag)

VectorDot(v, w) ==
    IF v.is2d THEN RAdd(RMul(v.x, w.x), RMul(v.y, w.y))
    ELSE RAdd(RAdd(RMul(v.x, w.x), RMul(v.y, w.y)), RMul(v.z, w.z))

\* an angle, given by its cosine and sine
Angle(c, s) == [cos |-> c, sin |-> s]

\* rotate(pitch, yaw, roll); yaw and roll are not read on a 2D vector
VectorRotate(v, pitch, yaw, roll) ==
    LET cosX == pitch.cos
        sinX == pitch.sin
        cosY == IF v.is2d THEN N(0) ELSE yaw.cos
        sinY == IF v.is2d THEN N(0) ELSE yaw.sin
        cosZ == IF v.is2d THEN N(0) ELSE roll.cos
        sinZ == IF v.is2d THEN N(0) ELSE roll.sin
        oldX == v.x
        oldY == v.y
        oldZ == v.z
        Sum3(a, b, c) == RAdd(RAdd(a, b), c)
    IN  IF v.is2d
        THEN [v EXCEPT !.x = RSub(RMul(oldX, cosX), RMul(oldY, sinX)),
                       !.y = RAdd(RMul(oldX, sinX), RMul(oldY, cosX))]
        ELSE [v EXCEPT
                !.x = Sum3(RMul(oldX, RMul(cosZ, cosY)),
                           RMul(oldY, RSub(RMul(RMul(cosZ, sinY), sinX),
                                           RMul(sinZ, cosX))),
                           RMul(oldZ, RAdd(RMul(RMul(cosZ, sinY), cosX),
                                           RMul(sinZ, sinX)))),
                !.y = Sum3(RMul(oldX, RMul(sinZ, cosY)),
                           RMul(oldY, RAdd(RMul(RMul(sinZ, sinY), sinX),
                                           RMul(cosZ, cosX))),
                           RMul(oldZ, RSub(RMul(RMul(sinZ, sinY), cosX),
                                           RMul(cosZ, sinX)))),
                !.z = Sum3(RMul(oldX, RNeg(sinY)),
                           RMul(oldY, RMul(cosY, sinX)),
                           RMul(oldZ, RMul(cosY, cosX)))]

getScalarProj(v, w) == RDiv(VectorDot(v, w), getMag(w))

\* setTo(vector): z is copied when this vector is 2D
VectorSetTo(v, w) ==
    [v EXCEPT !.x = w.x, !.y = w.y, !.z = IF v.is2d THEN w.z ELSE @]

VectorClone(v) ==
    IF v.is2d THEN Vector(v.x, v.y, NoZ) ELSE Vector(v.x, v.y, v.z)

VectorProject(v, w) ==
    VectorSetTo(v, VectorSetMag(VectorClone(w), getScalarProj(v, w)))

-----------------------------------------------------------------------------
(* Orientation (orientation.js) and Camera (camera.js) *)

\* new Orientation(posX, posY, dirX, dirY): the direction is normalized
Orientation(posX, posY, dirX, dirY) ==
    IF ~(IsNumber(posX) /\ IsNumber(posY) /\ IsNumber(dirX) /\ IsNumber(dirY))
    THEN Thrown("Orientation constructor must recieve four numbers")
    ELSE [position |-> Vector(posX, posY, NoZ),
          direction |-> VectorNormalize(Vector(dirX, dirY, NoZ))]

\* config[name] || default
OrDefault(config, name, default) ==
    IF name \in DOMAIN config /\ Truthy(config[name]) THEN config[name]
    ELSE default

\* config[name] is given and is not an object with numbers x and y
BadVectorArgument(config, name) ==
    /\ name \in DOMAIN config
    /\ ~(IsNumber(config[name].x) /\ IsNumber(config[name].y))

\* the argument checks of the Camera constructor: the message thrown, or "none"
CameraConfigError(config) ==
    IF BadVectorArgument(config, "position") THEN "position"
    ELSE IF BadVectorArgument(config, "direction") THEN "direction"
    ELSE IF "focalLength" \in DOMAIN config /\ ~IsNumber(config.focalLength)
    THEN "focalLength"
    ELSE IF "pitch" \in DOMAIN config /\ ~IsInteger(config.pitch) THEN "pitch"
    ELSE "none"

\* the camera plane set without the change of sign
PerpendicularUnsigned(direction) == Vector(direction.y, direction.x, NoZ)

\* new Vector(-direction.y, direction.x), the local x axis of the camera
Perpendicular(direction) == Vector(RNeg(direction.y), direction.x, NoZ)

\* new Camera(config)
CameraConstructor(config) ==
    IF CameraConfigError(config) # "none"
    THEN Thrown(CameraConfigError(config))
    ELSE
    LET position == IF "position" \in DOMAIN config THEN config.position
                    ELSE [x |-> N(0), y |-> N(0)]
        direction == IF "direction" \in DOMAIN config THEN config.direction
                     ELSE [x |-> N(1), y |-> N(0)]
        o == Orientation(position.x, position.y, direction.x, direction.y)
        scaled == VectorScale(o.direction, OrDefault(config, "focalLength", N(1)))
    IN  [orientation |-> [o EXCEPT !.direction = scaled],
         cameraPlane |-> Perpendicular(scaled),
         pitch |-> OrDefault(config, "pitch", N(0)),
         lighting |-> IF "lighting" \in DOMAIN config THEN config.lighting
                      ELSE Undefined]

\* the assignments cameraPlane.x = -direction.y; cameraPlane.y = direction.x
\* of rotate and setRotation
AlignPlane(cam) ==
    [cam EXCEPT !.cameraPlane.x = Perpendicular(cam.orientation.direction).x,
                !.cameraPlane.y = Perpendicular(cam.orientation.direction).y]

\* an argument that was not given: Math.cos(undefined) is NaN
NoAngle == Angle(NaN, NaN)

\* camera.rotate(angle)
CameraRotate(cam, angle) ==
    AlignPlane([cam EXCEPT !.orientation.direction =
                    VectorRotate(@, angle, NoAngle, NoAngle)])

\* camera.setRotation(angle)
CameraSetRotation(cam, angle) ==
    LET focalLength == getMag(cam.orientation.direction)
    IN  AlignPlane([cam EXCEPT
            !.orientation.direction.x = RMul(angle.cos, focalLength),
            !.orientation.direction.y = RMul(angle.sin, focalLength)])

\* camera.move(deltaX, deltaY)
CameraMove(cam, deltaX, deltaY) ==
    IF ~(IsNumber(deltaX) /\ IsNumber(deltaY)) THEN cam
    ELSE [cam EXCEPT !.orientation.position.x = RAdd(@, deltaX),
                     !.orientation.position.y = RAdd(@, deltaY)]

\* camera.setPosition(newX, newY)
CameraSetPosition(cam, newX, newY) ==
    IF ~(IsNumber(newX) /\ IsNumber(newY)) THEN cam
    ELSE [cam EXCEPT !.orientation.position.x = newX,
                     !.orientation.position.y = newY]

-----------------------------------------------------------------------------
(* Screen constructor (screen.js) *)

\* Math.round: the nearest integer, halves rounded up
RRound(a) == IF IsFinite(a) THEN RFloor(RAdd(a, Half)) ELSE a

\* the rounded size without the replacement of 0 by 1
RoundOnly(a) == RRound(a)

\* Math.round(a) || 1
RoundOrOne(a) == IF Truthy(RRound(a)) THEN RRound(a) ELSE N(1)

\* new Screen(width, height, quality)
ScreenConstructor(width, height, quality) ==
    IF ~IsInteger(width) \/ RLe(width, N(0))
    THEN Thrown("Screen width must be a positive non-zero integer")
    ELSE IF ~IsInteger(height) \/ RLe(height, N(0))
    THEN Thrown("Screen height must be a positive non-zero integer")
    ELSE IF ~IsNumber(quality) \/ ~(RGt(quality, N(0)) /\ RLe(quality, N(1)))
    THEN Thrown("Screen quality must be a number in the range (0, 1]")
    ELSE [width |-> width, height |-> height, quality |-> quality]
         @@ NewScreen(RoundOrOne(RMul(width, quality))[1],
                      RoundOrOne(RMul(height, quality))[1])

-----------------------------------------------------------------------------
(* Texture constructor and image load (texture.js) *)

\* the argument checks of the Texture constructor: the message thrown, or "none"
TextureConfigError(config) ==
    IF "width" \in DOMAIN config
       /\ ~(IsInteger(config.width) /\ RGt(config.width, N(0)))
    THEN "Texture width must be an integer greater than 0"
    ELSE IF "height" \in DOMAIN config
            /\ ~(IsInteger(config.height) /\ RGt(config.height, N(0)))
    THEN "Texture height must be an integer greater than 0"
    ELSE IF ("width" \in DOMAIN config) # ("height" \in DOMAIN config)
    THEN "Texture constructor must receive width and height together"
    ELSE "none"

\* new Texture(config): the object when the constructor returns, its image
\* still loading; width, height and temporaryColor are fields only if given
TextureConstructor(config) ==
    IF TextureConfigError(config) # "none"
    THEN Thrown(TextureConfigError(config))
    ELSE [kind |-> "Texture", pixels |-> <<>>, hasLoaded |-> FALSE,
          htmlImageElement |-> [state |-> "loading"]]
         @@ [name \in DOMAIN config \cap {"width", "height"} |-> config[name][1]]
         @@ [name \in DOMAIN config \cap {"temporaryColor"} |-> config[name]]

\* ctx.getImageData(0, 0, width, height).data: width * height RGBA pixels
ImageData(width, height) == [i \in 1 .. 4 * width * height |-> 255]

\* the "load" listener; image is the loaded image (natural width and height,
\* and whether its pixels may be read: a canvas an image of another origin
\* was drawn on is tainted, and getImageData throws on it as it does for an
\* empty rectangle)
OnLoad(t, image) ==
    LET flagged == [t EXCEPT !.hasLoaded = TRUE,
                             !.htmlImageElement = [state |-> "loaded"] @@ image]
        sized == IF "width" \notin DOMAIN t /\ "height" \notin DOMAIN t
                 THEN [width |-> image.width, height |-> image.height] @@ flagged
                 ELSE flagged
        getImageDataThrows ==
            image.tainted \/ sized.width = 0 \/ sized.height = 0
    IN  IF getImageDataThrows THEN sized
        ELSE [sized EXCEPT !.pixels = ImageData(sized.width, sized.height)]

\* the "error" listener: throws, the texture stays unloaded
OnError(t) == [t EXCEPT !.htmlImageElement = [state |-> "error"]]

-----------------------------------------------------------------------------
(* Renderer.render *)

\* the arguments of a render call: whether each is an instance of its class
RenderArguments == [screen : BOOLEAN, scene : BOOLEAN, camera : BOOLEAN]

\* the entry checks without the check of the camera
FailedCheckNoCamera(args) ==
    IF ~args.screen THEN "screen"
    ELSE IF ~args.scene THEN "scene"
    ELSE "none"

\* the three instanceof checks at the entry of Renderer.render: the check
\* that throws, or "none"
FailedCheck(args) ==
    IF ~args.screen THEN "screen"
    ELSE IF ~args.scene THEN "scene"
    ELSE IF ~args.camera THEN "camera"
    ELSE "none"

\* the guards of the four passes
SkyboxGuard(sc) == sc.skybox.enabled

WallsGuard(sc) ==
    Len(sc.worldMap.data) # 0 /\ DOMAIN sc.worldMap.cellInfo # {}

EntitiesGuard(sc) == Len(sc.gameObject.entities) # 0

FloorCeilingGuard(sc) == sc.floor.enabled = TRUE \/ sc.ceiling.enabled = TRUE

\* the passes with the entities drawn before the walls
PassAfterSwapped(p) ==
    CASE p = "skybox" -> "entities"
      [] p = "entities" -> "walls"
      [] p = "walls" -> "floorCeiling"
      [] p = "floorCeiling" -> "idle"

\* the statement of Renderer.render that follows pass p
PassAfter(p) ==
    CASE p = "skybox" -> "walls"
      [] p = "walls" -> "entities"
      [] p = "entities" -> "floorCeiling"
      [] p = "floorCeiling" -> "idle"

\* the entry of Renderer.render: the argument checks
RenderCall(args) ==
    /\ pc = "idle"
    /\ threw' = FailedCheck(args)
    /\ IF FailedCheck(args) = "none"
       THEN /\ pc' = "skybox"
            /\ passLog' = <<>>
            /\ log' = <<>>
            /\ afterClear' = (lastOp = "clear")
            /\ UNCHANGED <<screen, lastOp>>
       ELSE UNCHANGED <<pc, passLog, log, screen, lastOp, afterClear>>
    /\ UNCHANGED <<scene, camera, ray, rayReads, rayVisited, nCasts, prevRay>>
    /\ UNCHANGED objectVars

\* one pass of Renderer.render: skipped when its guard is false
RunPass(p, guard, result) ==
    /\ pc = p
    /\ pc' = PassAfter(p)
    /\ IF guard
       THEN /\ screen' = result.screen
            /\ log' = result.log
            /\ passLog' = Append(passLog, p)
       ELSE UNCHANGED <<screen, log, passLog>>
    /\ lastOp' = "render"
    /\ UNCHANGED <<scene, camera, threw, afterClear,
                   ray, rayReads, rayVisited, nCasts, prevRay>>
    /\ UNCHANGED objectVars

DrawState == [screen |-> screen, log |-> log]

SkyboxPass ==
    RunPass("skybox", SkyboxGuard(scene), renderSkybox(DrawState, scene, camera))

WallsPass ==
    RunPass("walls", WallsGuard(scene), renderWalls(DrawState, scene, camera))

EntitiesPass ==
    RunPass("entities", EntitiesGuard(scene),
            renderEntities(DrawState, scene, camera))

FloorCeilingPass ==
    RunPass("floorCeiling", FloorCeilingGuard(scene),
            renderFloorCeiling(DrawState, scene, camera))

\* screen.clear() between two render calls
Clear ==
    /\ pc = "idle"
    /\ screen' = ScreenClear(screen)
    /\ lastOp' = "clear"
    /\ threw' = "none"
    /\ UNCHANGED <<scene, camera, pc, passLog, log, afterClear,
                   ray, rayReads, rayVisited, nCasts, prevRay>>
    /\ UNCHANGED objectVars

\* screen.update() between two render calls
Update ==
    /\ pc = "idle"
    /\ lastOp = "render"
    /\ screen' = ScreenUpdate(screen)
    /\ lastOp' = "update"
    /\ threw' = "none"
    /\ UNCHANGED <<scene, camera, pc, passLog, log, afterClear,
                   ray, rayReads, rayVisited, nCasts, prevRay>>
    /\ UNCHANGED objectVars

DefaultRay == RayInit(Half, Half, N(0), N(1), N(1))

\* the variables of a render call and of the ray
renderVars == <<pc, passLog, log, lastOp, threw, afterClear>>
rayVars == <<ray, rayReads, rayVisited, nCasts, prevRay>>

\* no render call was made
RenderUnused ==
    /\ pc = "idle"
    /\ passLog = <<>>
    /\ log = <<>>
    /\ lastOp = "new"
    /\ threw = "none"
    /\ afterClear = FALSE

\* no cast() was made on the ray
RayUnused ==
    /\ ray = DefaultRay
    /\ rayReads = <<>>
    /\ rayVisited = <<>>
    /\ nCasts = 0
    /\ prevRay = DefaultRay

\* no call was made on the objects used on their own
NoCall == [op |-> "none", args |-> <<>>, n |-> 0, made |-> <<>>]

ObjectsUnused ==
    /\ userTexture = UnloadedTexture
    /\ userVector = Vector(N(0), N(0), NoZ)
    /\ call = NoCall

Init ==
    /\ scene \in Scenes
    /\ camera \in Cameras \cup OpenCameras \cup TiltedCameras
    /\ camera \in OpenCameras => scene \in OpenScenes
    /\ camera \in TiltedCameras => scene \in OpenScenes \cup NearScenes
    /\ screen = NewScreen(RenderWidth, RenderHeight)
    /\ pc = "idle"
    /\ passLog = <<>>
    /\ log = <<>>
    /\ lastOp = "new"
    /\ threw = "none"
    /\ afterClear = FALSE
    /\ ray = DefaultRay
    /\ rayReads = <<>>
    /\ rayVisited = <<>>
    /\ nCasts = 0
    /\ prevRay = DefaultRay
    /\ ObjectsUnused

Next ==
    \/ \E args \in RenderArguments : RenderCall(args)
    \/ SkyboxPass
    \/ WallsPass
    \/ EntitiesPass
    \/ FloorCeilingPass
    \/ Clear
    \/ Update

Spec == Init /\ [][Next]_vars

-----------------------------------------------------------------------------
(* The Ray used on its own: construction, init and repeated cast *)

RayStartXs == {R(-1, 2), N(1), R(3, 2), R(7, 2)}
RayStartYs == {R(-1, 2), Half, N(2), R(9, 2)}
RayDirs == {N(-1), R(-1, 2), N(0), R(1, 3), N(1)}

RayWorldMaps ==
    {EmptyWorldMap, WorldMap(0, Red, TRUE), WorldMap(3, Red, TRUE)}

\* ray.cast()
Cast ==
    /\ nCasts < MaxCasts
    /\ LET c == RayCast(ray, scene.worldMap)
       IN  /\ ray' = c.r
           /\ rayReads' = c.reads
           /\ rayVisited' = c.visited
    /\ nCasts' = nCasts + 1
    /\ prevRay' = ray
    /\ UNCHANGED <<scene, camera, screen, pc, passLog, log, lastOp, threw,
                   afterClear>>
    /\ UNCHANGED objectVars

\* ray.init(startX, startY, dirX, dirY, 1) on a ray already in use, as the
\* renderer does for every screen column
Reinit(startX, dirX, dirY) ==
    /\ nCasts > 0
    /\ nCasts < MaxCasts
    /\ ray' = RayInit(startX, Half, dirX, dirY, N(1))
    /\ prevRay' = RayInit(startX, Half, dirX, dirY, N(1))
    /\ rayReads' = <<>>
    /\ rayVisited' = <<>>
    /\ UNCHANGED <<scene, camera, screen, pc, passLog, log, lastOp, threw,
                   afterClear, nCasts>>
    /\ UNCHANGED objectVars

InitRay ==
    /\ scene \in {Scene(w, DefaultPlanes, <<>>, DefaultSkybox,
                        Lighting(N(0), N(1))) : w \in RayWorldMaps}
    /\ camera = Camera(0)
    /\ screen = NewScreen(RenderWidth, RenderHeight)
    /\ pc = "idle"
    /\ passLog = <<>>
    /\ log = <<>>
    /\ lastOp = "new"
    /\ threw = "none"
    /\ afterClear = FALSE
    /\ ray \in {RayInit(sx, sy, dx, dy, N(1)) :
                    sx \in RayStartXs, sy \in RayStartYs,
                    dx \in RayDirs, dy \in RayDirs}
    /\ rayReads = <<>>
    /\ rayVisited = <<>>
    /\ nCasts = 0
    /\ prevRay = ray
    /\ ObjectsUnused

NextRay ==
    \/ Cast
    \/ \E sx \in {N(1), R(3, 2)}, dx \in {N(-1), N(0)}, dy \in {R(1, 3), N(-1)} :
            Reinit(sx, dx, dy)

SpecRay == InitRay /\ [][NextRay]_vars

-----------------------------------------------------------------------------
(* Ray.cast one loop iteration at a time, in the cast loop of a wall column *)

\* ray.cast() is called: this.hit = 0
BeginCast ==
    /\ pc = "cast"
    /\ ray' = [ray EXCEPT !.hit = 0]
    /\ nCasts' = nCasts + 1
    /\ pc' = "while"
    /\ UNCHANGED <<scene, camera, screen, passLog, log, lastOp, threw,
                   afterClear, rayReads, rayVisited, prevRay>>
    /\ UNCHANGED objectVars

\* one iteration of while (this.hit === 0): the step, the bounds check with
\* its break, the read of the cell
LoopStep ==
    /\ pc = "while"
    /\ ray.hit = 0
    /\ LET st == CastStep([r |-> ray, reads |-> <<>>, visited |-> <<>>,
                           out |-> FALSE], scene.worldMap)
       IN  /\ ray' = st.r
           /\ pc' = IF st.out THEN "after" ELSE "while"
    /\ UNCHANGED <<scene, camera, screen, passLog, log, lastOp, threw,
                   afterClear, rayReads, rayVisited, nCasts, prevRay>>
    /\ UNCHANGED objectVars

\* the loop condition fails: a cell that is not 0 was read
LoopExit ==
    /\ pc = "while"
    /\ ray.hit # 0
    /\ pc' = "after"
    /\ UNCHANGED <<scene, camera, screen, passLog, log, lastOp, threw,
                   afterClear>>
    /\ UNCHANGED rayVars
    /\ UNCHANGED objectVars

\* the distance and face are computed and cast() returns
FinishCast ==
    /\ pc = "after"
    /\ ray' = CastFinish(ray)
    /\ pc' = "returned"
    /\ UNCHANGED <<scene, camera, screen, passLog, log, lastOp, threw,
                   afterClear, rayReads, rayVisited, nCasts, prevRay>>
    /\ UNCHANGED objectVars

\* the loop of renderWalls around cast(): if (ray.hit === 0) break; otherwise
\* the hit is drawn or skipped and cast() is called again
ColumnLoop ==
    /\ pc = "returned"
    /\ pc' = IF ray.hit = 0 THEN "done" ELSE "cast"
    /\ UNCHANGED <<scene, camera, screen, passLog, log, lastOp, threw,
                   afterClear>>
    /\ UNCHANGED rayVars
    /\ UNCHANGED objectVars

InitSteps ==
    /\ scene \in {Scene(w, DefaultPlanes, <<>>, DefaultSkybox,
                        Lighting(N(0), N(1))) : w \in RayWorldMaps}
    /\ camera = Camera(0)
    /\ screen = NewScreen(RenderWidth, RenderHeight)
    /\ pc = "cast"
    /\ passLog = <<>>
    /\ log = <<>>
    /\ lastOp = "new"
    /\ threw = "none"
    /\ afterClear = FALSE
    /\ ray \in {RayInit(sx, sy, dx, dy, N(1)) :
                    sx \in RayStartXs, sy \in RayStartYs,
                    dx \in RayDirs, dy \in RayDirs}
    /\ rayReads = <<>>
    /\ rayVisited = <<>>
    /\ nCasts = 0
    /\ prevRay = ray
    /\ ObjectsUnused

NextSteps ==
    \/ BeginCast
    \/ LoopStep
    \/ LoopExit
    \/ FinishCast
    \/ ColumnLoop

SpecSteps == InitSteps /\ [][NextSteps]_vars

\* the code runs on: a step that can be taken is taken
FairSteps == SpecSteps /\ WF_vars(NextSteps)

-----------------------------------------------------------------------------
(* The Vector used on its own *)

VectorArguments ==
    {Vector(N(3), N(4), NoZ), Vector(N(0), N(0), NoZ), Vector(N(1), N(2), N(2))}

Scalars == {N(0), N(2)}

\* angles with rational cosine and sine: a quarter turn and atan(4/3)
Angles == {Angle(N(0), N(1)), Angle(R(3, 5), R(4, 5))}

\* a method call on the vector, which returns the userVector as the method left it
VectorCall(op, args, result) ==
    /\ call.n < MaxCalls
    /\ userVector' = result
    /\ call' = [call EXCEPT !.op = op, !.args = args, !.n = @ + 1]
    /\ UNCHANGED <<scene, camera, screen, userTexture>>
    /\ UNCHANGED <<renderVars, rayVars>>

Add == \E w \in VectorArguments : VectorCall("add", <<w>>, VectorAdd(userVector, w))

AddConst ==
    \E num \in Scalars : VectorCall("addConst", <<num>>, VectorAddConst(userVector, num))

Subtract ==
    \E w \in VectorArguments :
        VectorCall("subtract", <<w>>, VectorSubtract(userVector, w))

SubtractConst ==
    \E num \in Scalars :
        VectorCall("subtractConst", <<num>>, VectorSubtractConst(userVector, num))

Scale ==
    \E scalar \in Scalars : VectorCall("scale", <<scalar>>, VectorScale(userVector, scalar))

\* the magnitude of v is rational, so that RSqrt gives it exactly
RationalMag(v) == HasRationalRoot(getMagSqr(v))

\* normalize() and setMag() are called on vectors of rational magnitude
Normalize ==
    /\ RationalMag(userVector)
    /\ VectorCall("normalize", <<>>, VectorNormalize(userVector))

SetMag ==
    /\ RationalMag(userVector)
    /\ \E newMag \in Scalars :
            VectorCall("setMag", <<newMag>>, VectorSetMag(userVector, newMag))

Rotate ==
    \E pitch \in Angles :
        VectorCall("rotate", <<pitch>>,
                   VectorRotate(userVector, pitch, Angle(N(1), N(0)), pitch))

Project ==
    \E w \in VectorArguments :
        VectorCall("project", <<w>>, VectorProject(userVector, w))

SetTo ==
    \E w \in VectorArguments : VectorCall("setTo", <<w>>, VectorSetTo(userVector, w))

InitVector ==
    /\ userVector \in {Vector(N(3), N(4), NoZ), Vector(N(0), N(0), NoZ),
                   Vector(N(2), N(-1), N(2)), Vector(N(0), N(0), N(0))}
    /\ call = [op |-> "Vector", args |-> <<>>, n |-> 0, made |-> userVector]
    /\ userTexture = UnloadedTexture
    /\ scene \in {Scene(DefaultWorldMap, DefaultPlanes, <<>>, DefaultSkybox,
                        Lighting(N(0), N(1)))}
    /\ camera = Camera(0)
    /\ screen = NewScreen(RenderWidth, RenderHeight)
    /\ RenderUnused
    /\ RayUnused

NextVector ==
    \/ Add
    \/ AddConst
    \/ Subtract
    \/ SubtractConst
    \/ Scale
    \/ Normalize
    \/ SetMag
    \/ Rotate
    \/ Project
    \/ SetTo

SpecVector == InitVector /\ [][NextVector]_vars

-----------------------------------------------------------------------------
(* The Camera used on its own *)

CameraConfigs ==
    {[x \in {} |-> 0],
     [position |-> [x |-> R(3, 2), y |-> Half],
      direction |-> [x |-> N(0), y |-> N(2)]],
     [direction |-> [x |-> N(3), y |-> N(4)], focalLength |-> N(2)],
     [direction |-> [x |-> N(0), y |-> N(0)], pitch |-> N(1)],
     [direction |-> [x |-> N(-1), y |-> N(0)], focalLength |-> Half],
     [direction |-> [x |-> N(1), y |-> N(0)], focalLength |-> NotANumber]}

\* a method call on camera, which returns the camera as the method left it
CameraCall(op, args, result) ==
    /\ ~HasThrown(camera)
    /\ call.n < MaxCalls
    /\ camera' = result
    /\ call' = [call EXCEPT !.op = op, !.args = args, !.n = @ + 1]
    /\ UNCHANGED <<scene, screen, userTexture, userVector>>
    /\ UNCHANGED <<renderVars, rayVars>>

RotateCamera ==
    \E angle \in Angles :
        CameraCall("rotate", <<angle>>, CameraRotate(camera, angle))

SetRotationOfCamera ==
    \E angle \in Angles \cup {Angle(N(-1), N(0))} :
        CameraCall("setRotation", <<angle>>, CameraSetRotation(camera, angle))

MoveCamera ==
    \E d \in {<<N(1), N(0)>>, <<R(-1, 2), N(2)>>, <<N(1), NotANumber>>} :
        CameraCall("move", d, CameraMove(camera, d[1], d[2]))

SetPositionOfCamera ==
    \E p \in {<<N(0), N(0)>>, <<R(3, 2), Half>>, <<NotANumber, N(0)>>} :
        CameraCall("setPosition", p, CameraSetPosition(camera, p[1], p[2]))

InitCamera ==
    /\ \E config \in CameraConfigs :
        /\ camera = CameraConstructor(config)
        /\ call = [op |-> "Camera", args |-> <<config>>, n |-> 0,
                   made |-> camera]
    /\ userTexture = UnloadedTexture
    /\ userVector = Vector(N(0), N(0), NoZ)
    /\ scene \in {Scene(DefaultWorldMap, DefaultPlanes, <<>>, DefaultSkybox,
                        Lighting(N(0), N(1)))}
    /\ screen = NewScreen(RenderWidth, RenderHeight)
    /\ RenderUnused
    /\ RayUnused

NextCamera ==
    \/ RotateCamera
    \/ SetRotationOfCamera
    \/ MoveCamera
    \/ SetPositionOfCamera

SpecCamera == InitCamera /\ [][NextCamera]_vars

-----------------------------------------------------------------------------
(* The Screen constructor *)

ScreenWidths == {NotANumber, N(-1), N(0), R(3, 2), N(1), N(2), N(3), N(5)}
ScreenHeights == {NotANumber, N(0), R(5, 2), Infinity, N(1), N(3), N(4)}
ScreenQualities ==
    {NotANumber, NaN, N(0), R(-1, 2), R(1, 8), R(1, 4), Half, R(3, 4), N(1), N(2)}

\* new Screen(width, height, quality); screen is the object made, or what
\* the constructor threw
Construct(width, height, quality) ==
    /\ call.n < MaxCalls
    /\ screen' = ScreenConstructor(width, height, quality)
    /\ call' = [op |-> "Screen", args |-> <<width, height, quality>>,
                n |-> call.n + 1, made |-> screen']
    /\ UNCHANGED <<scene, camera, userTexture, userVector>>
    /\ UNCHANGED <<renderVars, rayVars>>

\* screen.clear() on a screen the constructor made
ClearConstructed ==
    /\ ~HasThrown(screen)
    /\ call.op = "Screen"
    /\ screen' = ScreenClear(screen)
    /\ call' = [call EXCEPT !.op = "clear"]
    /\ UNCHANGED <<scene, camera, userTexture, userVector>>
    /\ UNCHANGED <<renderVars, rayVars>>

InitScreen ==
    /\ screen = NewScreen(RenderWidth, RenderHeight)
    /\ call = NoCall
    /\ userTexture = UnloadedTexture
    /\ userVector = Vector(N(0), N(0), NoZ)
    /\ scene \in {Scene(DefaultWorldMap, DefaultPlanes, <<>>, DefaultSkybox,
                        Lighting(N(0), N(1)))}
    /\ camera = Camera(0)
    /\ RenderUnused
    /\ RayUnused

NextScreen ==
    \/ \E width \in ScreenWidths, height \in ScreenHeights,
          quality \in ScreenQualities : Construct(width, height, quality)
    \/ ClearConstructed

SpecScreen == InitScreen /\ [][NextScreen]_vars

-----------------------------------------------------------------------------
(* The Texture and the load of its image *)

TextureConfigs ==
    {d @@ c :
        d \in {[x \in {} |-> 0],
               [width |-> N(1), height |-> N(1)],
               [width |-> N(2), height |-> N(2)],
               [width |-> N(2), height |-> N(1)],
               [width |-> N(2)],
               [width |-> N(0), height |-> N(1)],
               [width |-> N(1), height |-> R(3, 2)]},
        c \in {[x \in {} |-> 0], [temporaryColor |-> Pink],
               [temporaryColor |-> Red]}}

\* the images a path can lead to
Images == [width : 0 .. 3, height : 0 .. 2, tainted : BOOLEAN]

\* the image finished loading: the "load" listener runs, once
Load(image) ==
    /\ ~HasThrown(userTexture)
    /\ userTexture.htmlImageElement.state = "loading"
    /\ userTexture' = OnLoad(userTexture, image)
    /\ call' = [call EXCEPT !.op = "load", !.n = @ + 1]
    /\ UNCHANGED <<scene, camera, screen, userVector>>
    /\ UNCHANGED <<renderVars, rayVars>>

\* the image failed to load: the "error" listener runs
LoadError ==
    /\ ~HasThrown(userTexture)
    /\ userTexture.htmlImageElement.state = "loading"
    /\ userTexture' = OnError(userTexture)
    /\ call' = [call EXCEPT !.op = "error", !.n = @ + 1]
    /\ UNCHANGED <<scene, camera, screen, userVector>>
    /\ UNCHANGED <<renderVars, rayVars>>

InitTexture ==
    /\ \E config \in TextureConfigs :
        /\ userTexture = TextureConstructor(config)
        /\ call = [op |-> "Texture", args |-> <<config>>, n |-> 0,
                   made |-> userTexture]
    /\ userVector = Vector(N(0), N(0), NoZ)
    /\ scene \in {Scene(DefaultWorldMap, DefaultPlanes, <<>>, DefaultSkybox,
                        Lighting(N(0), N(1)))}
    /\ camera = Camera(0)
    /\ screen = NewScreen(RenderWidth, RenderHeight)
    /\ RenderUnused
    /\ RayUnused

NextTexture ==
    \/ \E image \in Images : Load(image)
    \/ LoadError

SpecTexture == InitTexture /\ [][NextTexture]_vars

-----------------------------------------------------------------------------
(* Renderer.render on screens of several heights *)

\* a wall of height 1 one unit in front of the camera at (3/2, 1, 1/2), with
\* a second wall of height 1 behind it
UnitWallMap ==
    [WorldMap(0, Red, TRUE) EXCEPT
        !.cellInfo = <<[height |-> N(1), appearance |-> Red],
                       [height |-> N(1), appearance |-> Blue]>>]

\* the render heights, even and odd
WallRenderHeights == 2 .. (RenderHeight + 1)

InitHeights ==
    /\ scene \in {Scene(UnitWallMap, p, <<>>, k, Lighting(N(0), N(1))) :
                    p \in PlanePairs, k \in Skyboxes}
    /\ camera = CameraAt(R(3, 2), N(1), Half)
    /\ screen \in {NewScreen(RenderWidth, h) : h \in WallRenderHeights}
    /\ RenderUnused
    /\ RayUnused
    /\ ObjectsUnused

SpecHeights == InitHeights /\ [][Next]_vars

-----------------------------------------------------------------------------
(* Scene.add and Scene.remove *)

\* object instanceof Entity
IsEntity(object) == {"orientation", "size", "appearance"} \subseteq DOMAIN object

\* array.indexOf(object): the first index, counted from 0, or -1
IndexOf(array, object) ==
    IF \E k \in DOMAIN array : array[k] = object
    THEN (CHOOSE k \in DOMAIN array :
            /\ array[k] = object
            /\ \A j \in DOMAIN array : array[j] = object => k <= j) - 1
    ELSE -1

\* array.splice(start, 1): a negative start counts from the end of the array,
\* a start past the end removes nothing
Splice(array, start) ==
    LET len == Len(array)
        from == IF start < 0
                THEN (IF len + start < 0 THEN 0 ELSE len + start)
                ELSE (IF start > len THEN len ELSE start)
    IN  [k \in 1 .. (IF from < len THEN len - 1 ELSE len) |->
            IF k <= from THEN array[k] ELSE array[k + 1]]

\* scene.add(object)
SceneAdd(sc, object) ==
    IF IsEntity(object)
    THEN [sc EXCEPT !.gameObject.entities = Append(@, object)]
    ELSE sc

\* scene.remove(object)
SceneRemove(sc, object) ==
    IF IsEntity(object)
    THEN [sc EXCEPT !.gameObject.entities = Splice(@, IndexOf(@, object))]
    ELSE sc

\* three entities and two objects that are no Entity
SceneObjects ==
    {Entity(R(3, 2), R(3, 2), N(0), N(1), Green),
     Entity(R(3, 2), N(2), N(0), N(1), LoadedTexture),
     Entity(Half, Half, N(0), Half, Green),
     Red,
     Vector(N(1), N(2), NoZ)}

\* the call made on the scene: the entities before it, and the call before it
SceneCall(op, object) ==
    [op |-> op, args |-> <<object>>, n |-> call.n + 1,
     made |-> [before |-> scene.gameObject.entities,
               previous |-> [op |-> call.op, args |-> call.args,
                             before |-> IF call.op \in {"add", "remove"}
                                        THEN call.made.before ELSE <<>>]]]

AddToScene(object) ==
    /\ call.n < MaxCalls
    /\ scene' = SceneAdd(scene, object)
    /\ call' = SceneCall("add", object)
    /\ UNCHANGED <<camera, screen, userTexture, userVector>>
    /\ UNCHANGED <<renderVars, rayVars>>

RemoveFromScene(object) ==
    /\ call.n < MaxCalls
    /\ scene' = SceneRemove(scene, object)
    /\ call' = SceneCall("remove", object)
    /\ UNCHANGED <<camera, screen, userTexture, userVector>>
    /\ UNCHANGED <<renderVars, rayVars>>

InitScene ==
    /\ scene \in {Scene(DefaultWorldMap, DefaultPlanes, e, DefaultSkybox,
                         Lighting(N(0), N(1))) :
                    e \in {<<>>} \cup {<<o>> : o \in {o \in SceneObjects : IsEntity(o)}}}
    /\ camera = Camera(0)
    /\ screen = NewScreen(RenderWidth, RenderHeight)
    /\ ObjectsUnused
    /\ RenderUnused
    /\ RayUnused

NextScene ==
    \/ \E object \in SceneObjects : AddToScene(object)
    \/ \E object \in SceneObjects : RemoveFromScene(object)

SpecScene == InitScene /\ [][NextScene]_vars

-----------------------------------------------------------------------------
(* calculateLightingScalar on its own *)

\* the scene lightings checkLighting leaves: the defaults (lighting off), dim
\* and full ambient light, with and without side shade
LitLightings ==
    {Lighting(sideShade, ambientLight) :
        sideShade \in {N(0), R(1, 4)},
        ambientLight \in {N(0), R(1, 4), Half, N(1)}}

\* cameras with the brightness, maxBrightness (Infinity when not given) and
\* focal length the Camera constructor leaves
LitCameras ==
    {[Camera(0) EXCEPT !.focalLength = focalLength,
                       !.lighting.brightness = brightness,
                       !.lighting.maxBrightness = maxBrightness,
                       !.lighting.color = color] :
        focalLength \in {N(1), N(2)},
        brightness \in {Half, N(1), N(3)},
        maxBrightness \in {Half, N(1), Infinity},
        color \in {Color(255, 255, 255, 255), Pink}}

\* the depths the passes hand in: ray.distance, transformY, rowDistance
LightingDepths == {N(0), R(1, 4), N(1), R(3, 2), N(4), N(FarRowDistance)}

\* the side argument: not given (entities, floor and ceiling), or ray.side
LightingSides == {NoSide, 0, 1}

\* calculateLightingScalar(scene, camera, depth, side)
CalculateLighting(depth, side) ==
    /\ call.n < MaxCalls
    /\ call' = [op |-> "calculateLightingScalar", args |-> <<depth, side>>,
                n |-> call.n + 1,
                made |-> calculateLightingScalar(scene, camera, depth, side)]
    /\ UNCHANGED <<scene, camera, screen, userTexture, userVector>>
    /\ UNCHANGED <<renderVars, rayVars>>

InitLighting ==
    /\ scene \in {Scene(DefaultWorldMap, DefaultPlanes, <<>>, DefaultSkybox, l) :
                    l \in LitLightings}
    /\ camera \in LitCameras
    /\ screen = NewScreen(RenderWidth, RenderHeight)
    /\ ObjectsUnused
    /\ RenderUnused
    /\ RayUnused

NextLighting ==
    \E depth \in LightingDepths, side \in LightingSides :
        CalculateLighting(depth, side)

SpecLighting == InitLighting /\ [][NextLighting]_vars

-----------------------------------------------------------------------------
(* Properties *)

PassOrder == <<"skybox", "walls", "entities", "floorCeiling">>

\* the position of a pass (or of "idle", the end of the call) in the order
Stage(p) ==
    CASE p = "skybox" -> 1
      [] p = "walls" -> 2
      [] p = "entities" -> 3
      [] p = "floorCeiling" -> 4
      [] p = "idle" -> 5

GuardHolds(p) ==
    CASE p = "skybox" -> scene.skybox.enabled
      [] p = "walls" -> Len(scene.worldMap.data) # 0
                          /\ DOMAIN scene.worldMap.cellInfo # {}
      [] p = "entities" -> Len(scene.gameObject.entities) > 0
      [] p = "floorCeiling" -> scene.floor.enabled \/ scene.ceiling.enabled

Rendering == pc # "idle" \/ lastOp = "render"

LogIndices == 1 .. Len(log)

\* C1: Renderer.render runs the passes in the order skybox, walls, entities,
\* floor/ceiling: at every point of a render the passes that have run are
\* exactly the earlier passes whose guard holds, each once, and every pixel
\* a pass considered is logged after all those of the earlier passes.
C1_PassesInFixedOrder ==
    Rendering =>
        /\ passLog = SelectSeq(SubSeq(PassOrder, 1, Stage(pc) - 1), GuardHolds)
        /\ \A i \in LogIndices :
                \E k \in 1 .. Len(passLog) : passLog[k] = log[i].pass
        /\ \A i, j \in LogIndices :
                i < j => Stage(log[i].pass) <= Stage(log[j].pass)

\* C1 witness: a finished render in which all four passes ran and three of
\* them drew pixels.
C1_Witness ==
    /\ pc = "idle" /\ lastOp = "render"
    /\ passLog = PassOrder
    /\ \A p \in {"walls", "entities", "floorCeiling"} :
            \E i \in LogIndices : log[i].pass = p /\ log[i].written

\* C2: in a render that follows clear(), every pixel written gets the
\* perpendicular distance of its surface as depth, and that depth does not
\* exceed the depth stored before.
C2_DepthIsSurfaceDistance ==
    afterClear =>
        \A i \in LogIndices :
            log[i].written =>
                /\ log[i].depthAfter = log[i].surface
                /\ RLe(log[i].depthAfter, log[i].stored)

\* C3: in the wall and entity passes a pixel (of a colored column, or of an
\* opaque texel of a textured column) is overwritten exactly when the stored
\* depth is strictly greater than the incoming depth; an overwritten pixel
\* gets the incoming depth, any other keeps pixel and depth.
C3_StrictDepthTest ==
    \A i \in LogIndices :
        (log[i].pass \in {"walls", "entities"} /\ log[i].alpha = 255) =>
            /\ log[i].written <=> RGt(log[i].stored, log[i].depth)
            /\ log[i].written => log[i].depthAfter = log[i].depth
            /\ ~log[i].written => /\ log[i].depthAfter = log[i].stored
                                  /\ log[i].pixelAfter = log[i].pixel

\* C4: after clear() and the skybox pass every depth entry is still +Infinity.
C4_SkyboxLeavesDepth ==
    (pc = "walls" /\ afterClear) =>
        \A i \in DOMAIN screen.depthBuffer : screen.depthBuffer[i] = Infinity

\* C5: drawTexturedColumn skips every texel whose alpha is not 255: the
\* pixel and the depth entry keep the values they had.
C5_TransparentTexelSkipped ==
    \A i \in LogIndices :
        (log[i].kind = "textured" /\ log[i].texRead /\ log[i].alpha # 255) =>
            /\ ~log[i].written
            /\ log[i].pixelAfter = log[i].pixel
            /\ log[i].depthAfter = log[i].stored

\* C5 witness: a transparent texel of a nearer surface passed the depth test
\* and was skipped, and a surface behind it was then drawn at that pixel.
C5_Witness ==
    \E i, j \in LogIndices :
        /\ i < j
        /\ log[i].kind = "textured" /\ log[i].texRead /\ log[i].alpha # 255
        /\ log[j].index = log[i].index
        /\ log[j].written
        /\ RGt(log[j].depth, log[i].depth)

\* C6: after Screen.clear() every depthBuffer entry is +Infinity, every byte
\* of pixels is 0, and the render dimensions and buffer lengths are those of
\* construction.
C6_ClearResetsBuffers ==
    lastOp = "clear" =>
        /\ \A i \in DOMAIN screen.depthBuffer : screen.depthBuffer[i] = Infinity
        /\ \A i \in DOMAIN screen.pixels : screen.pixels[i] = 0
        /\ screen.renderWidth = RenderWidth
        /\ screen.renderHeight = RenderHeight
        /\ DOMAIN screen.depthBuffer = 0 .. (RenderWidth * RenderHeight - 1)
        /\ DOMAIN screen.pixels = 0 .. (4 * RenderWidth * RenderHeight - 1)

\* C6 witness: a clear() after a render that drew pixels and stored depths.
C6_Witness ==
    /\ lastOp = "clear"
    /\ pc = "idle"
    /\ \E i \in LogIndices : log[i].written /\ IsFinite(log[i].depthAfter)

\* C7: a render call with an argument of the wrong class throws before any
\* pass runs: the screen is exactly as before the call and no pass is entered.
C7_InvalidArgumentsThrow ==
    [][\A args \in RenderArguments :
          (RenderCall(args) /\ ~(args.screen /\ args.scene /\ args.camera)) =>
                /\ threw' # "none"
                /\ screen' = screen
                /\ pc' = "idle"
                /\ log' = log /\ passLog' = passLog]_vars

\* C7 witness: a render call threw on a screen that holds a rendered frame.
C7_Witness ==
    /\ threw = "camera"
    /\ lastOp = "render"
    /\ \E i \in DOMAIN screen.pixels : screen.pixels[i] # 0

InsideMap(mapX, mapY) ==
    /\ 0 <= mapX /\ mapX < scene.worldMap.width
    /\ 0 <= mapY /\ mapY < scene.worldMap.height

\* C8: Ray.cast() reads worldMap.data only at mapX + mapY*width of a cell
\* inside the map, an index inside the array.
C8_ReadsInsideMap ==
    \A i \in 1 .. Len(rayReads) :
        /\ InsideMap(rayReads[i].mapX, rayReads[i].mapY)
        /\ rayReads[i].index =
                rayReads[i].mapX + rayReads[i].mapY * scene.worldMap.width
        /\ rayReads[i].index >= 0
        /\ rayReads[i].index < Len(scene.worldMap.data)

\* C8 witness: a repeated cast() that started outside the map and read cells
\* of the map.
C8_Witness ==
    /\ nCasts >= 2
    /\ Len(rayReads) >= 2
    /\ ~InsideMap(rayVisited[1][1], rayVisited[1][2])

\* C9: when cast() returns, either hit # 0 is the value of the cell
\* (mapX, mapY), which lies inside the map, or hit = 0 and (mapX, mapY) lies
\* outside; every cell stepped into before the last one is inside and holds 0.
C9_CastResult ==
    Len(rayVisited) > 0 =>
        /\ \/ /\ ray.hit # 0
              /\ InsideMap(ray.mapX, ray.mapY)
              /\ ray.hit = scene.worldMap.data[
                        ray.mapX + ray.mapY * scene.worldMap.width + 1]
           \/ /\ ray.hit = 0
              /\ ~InsideMap(ray.mapX, ray.mapY)
        /\ rayVisited[Len(rayVisited)] = <<ray.mapX, ray.mapY>>
        /\ \A k \in 2 .. (Len(rayVisited) - 1) :
                /\ InsideMap(rayVisited[k][1], rayVisited[k][2])
                /\ scene.worldMap.data[rayVisited[k][1]
                        + rayVisited[k][2] * scene.worldMap.width + 1] = 0

\* C9 witness: a repeated cast() that crossed at least one empty cell and
\* returned a hit.
C9_Witness ==
    /\ Len(rayVisited) >= 3
    /\ ray.hit # 0
    /\ nCasts >= 2

\* the pixel a pass writes from the fallback color of the appearance of e
FallbackPixel(e) ==
    LET c == e.appearance.temporaryColor
        Chan(name, l) ==
            IF e.kind = "fill" THEN ToUint8Clamped(RMul(Prop(c, name), l))
            ELSE ToUint8Clamped(RFloor(RMul(Prop(c, name), l)))
    IN  <<Chan("red", e.lighting.r), Chan("green", e.lighting.g),
          Chan("blue", e.lighting.b), 255>>

\* C10: a pass that meets an unloaded Texture does not read its pixel array
\* and writes the channels of its temporaryColor (scaled by the lighting).
C10_UnloadedTextureFallback ==
    \A i \in LogIndices :
        HasLoadedIsFalse(log[i].appearance) =>
            /\ ~log[i].texRead
            /\ log[i].written => log[i].pixelAfter = FallbackPixel(log[i])

\* C11: a texture whose hasLoaded flag is set has its pixels, 4 * width *
\* height of them, and a positive width and height, whatever happened in the
\* load listener.
C11_LoadedTextureHasPixels ==
    (/\ call.op \in {"Texture", "load", "error"}
     /\ ~HasThrown(userTexture)
     /\ userTexture.hasLoaded)
    => /\ "width" \in DOMAIN userTexture
       /\ "height" \in DOMAIN userTexture
       /\ userTexture.width > 0
       /\ userTexture.height > 0
       /\ Len(userTexture.pixels) = 4 * userTexture.width * userTexture.height

\* the lighting configurations a Scene can be given: each of sideShade and
\* ambientLight a number or left out
LightingConfigs ==
    {s @@ a :
        s \in {[x \in {} |-> 0]}
              \cup {[sideShade |-> v] : v \in {N(0), R(1, 4), N(1), N(-1)}},
        a \in {[x \in {} |-> 0]}
              \cup {[ambientLight |-> v] : v \in {N(1), Half, N(0), N(2)}}}

\* sideShade === 0 and ambientLight === 1, each as given or as defaulted
LeftAtDefaults(config) ==
    /\ ("sideShade" \in DOMAIN config => config.sideShade = N(0))
    /\ ("ambientLight" \in DOMAIN config => config.ambientLight = N(1))

CameraMethods == {"rotate", "setRotation", "move", "setPosition"}

\* C13: from the Camera constructor on and after every rotate, setRotation,
\* move and setPosition the cameraPlane is (-direction.y, direction.x); move
\* and setPosition leave direction and cameraPlane as they were, rotate and
\* setRotation leave the position as it was.
C13_PlanePerpendicular ==
    /\ []((call.op \in CameraMethods \cup {"Camera"} /\ ~HasThrown(camera)) =>
            /\ camera.cameraPlane.x = RNeg(camera.orientation.direction.y)
            /\ camera.cameraPlane.y = camera.orientation.direction.x)
    /\ [][/\ call'.op \in {"move", "setPosition"} =>
                /\ camera'.orientation.direction = camera.orientation.direction
                /\ camera'.cameraPlane = camera.cameraPlane
          /\ call'.op \in {"rotate", "setRotation"} =>
                camera'.orientation.position = camera.orientation.position]_vars

\* a camera that was moved and then turned, its direction off the x axis
C13_Witness ==
    /\ call.op \in {"rotate", "setRotation"}
    /\ call.n >= 2
    /\ camera.orientation.position # call.made.orientation.position
    /\ camera.orientation.direction # call.made.orientation.direction
    /\ camera.orientation.direction.y # N(0)
    /\ camera.orientation.direction.x # N(0)

\* a positive integer
PositiveInteger(a) == IsNumber(a) /\ a[2] = 1 /\ a[1] > 0

\* a number in the range (0, 1]
InUnitRange(q) == IsNumber(q) /\ q[2] > 0 /\ q[1] > 0 /\ q[1] <= q[2]

\* max(1, round(size * quality)) for a positive integer size and a quality
\* in (0, 1]
RoundedAtLeastOne(size, quality) ==
    LET rounded == (2 * size[1] * quality[1] + quality[2]) \div (2 * quality[2])
    IN  IF rounded < 1 THEN 1 ELSE rounded

\* C14: new Screen(width, height, quality) throws unless width and height
\* are positive integers and quality is a number in (0, 1]; otherwise the
\* screen keeps the arguments, renderWidth and renderHeight are
\* max(1, round(size * quality)), and the depth buffer holds renderWidth *
\* renderHeight entries, all +Infinity.
C14_ScreenConstructor ==
    call.op = "Screen" =>
        LET width == call.args[1]
            height == call.args[2]
            quality == call.args[3]
        IN  IF PositiveInteger(width) /\ PositiveInteger(height)
               /\ InUnitRange(quality)
            THEN /\ ~HasThrown(screen)
                 /\ screen.width = width
                 /\ screen.height = height
                 /\ screen.quality = quality
                 /\ screen.renderWidth = RoundedAtLeastOne(width, quality)
                 /\ screen.renderHeight = RoundedAtLeastOne(height, quality)
                 /\ DOMAIN screen.depthBuffer =
                        0 .. (screen.renderWidth * screen.renderHeight - 1)
                 /\ \A i \in DOMAIN screen.depthBuffer :
                        screen.depthBuffer[i] = Infinity
            ELSE HasThrown(screen)

\* a screen whose width 1 at quality 1/4 rounds to 0 and is made 1 pixel
\* wide, constructed after a call that threw
C14_Witness ==
    /\ call.op = "Screen"
    /\ call.n >= 2
    /\ call.args = <<N(1), N(3), R(1, 4)>>
    /\ ~HasThrown(screen)
    /\ screen.renderWidth = 1
    /\ screen.renderHeight = 1

\* C15: with lighting disabled, a wall or sprite whose appearance is
\* new Color(0, 255, 0, 255) is written to the screen as the pixel
\* (0, 255, 0, 255).
C15_ColorWrittenAsGiven ==
    \A i \in LogIndices :
        (/\ ~scene.lighting.enabled
         /\ log[i].pass \in {"walls", "entities"}
         /\ log[i].appearance = Color(0, 255, 0, 255)
         /\ log[i].written)
        => log[i].pixelAfter = <<0, 255, 0, 255>>

VectorMethods ==
    {"add", "addConst", "subtract", "subtractConst", "scale", "normalize",
     "setMag", "rotate", "project", "setTo"}

\* C16: whatever methods are called on a vector, with 2D or 3D arguments,
\* is2d stays as the constructor set it and a 2D vector keeps z = 0.
C16_DimensionalityFixed ==
    call.op \in VectorMethods \cup {"Vector"} =>
        /\ userVector.is2d = call.made.is2d
        /\ userVector.is2d => userVector.z = N(0)

\* C17: every cast() returns, and the loop of casts of a wall column ends
\* with a cast that left the map (hit = 0), for every start, on a cell
\* boundary or outside the map too, and every direction, a zero component
\* included.
C17_CastTerminates ==
    /\ (pc = "while") ~> (pc = "returned")
    /\ <>(pc = "done" /\ ray.hit = 0)

\* a column loop that ended after two hits, its ray parallel to the y axis
C17_Witness ==
    /\ pc = "done"
    /\ ray.hit = 0
    /\ nCasts >= 3
    /\ ray.deltaDistX = Infinity

\* the rays a wall column's casts returned with a hit, in order
RECURSIVE HitsFrom(_, _, _)
HitsFrom(worldMap, r, hits) ==
    LET r2 == RayCast(r, worldMap).r
    IN  IF r2.hit = 0 THEN hits
        ELSE HitsFrom(worldMap, r2, Append(hits, r2))

ColumnHits(x) ==
    LET rayDir == ColumnRayDir(screen, camera, x)
    IN  HitsFrom(scene.worldMap,
                 RayInit(camera.orientation.position.x,
                         camera.orientation.position.y,
                         rayDir.x, rayDir.y, N(1)),
                 <<>>)

Columns == 0 .. (screen.renderWidth - 1)

HasWallInfo(h) == h.hit \in DOMAIN scene.worldMap.cellInfo

HitDrawStart(h) ==
    WallDrawStart(screen, camera, h, scene.worldMap.cellInfo[h.hit])

\* the log entries of the wall pass for the hit h in column x
WallEntries(x, h) ==
    {i \in LogIndices : /\ log[i].pass = "walls"
                        /\ log[i].x = x
                        /\ log[i].surface = h.distance}

\* the wall pass of the render has run
WallsPassRan == \E n \in DOMAIN passLog : passLog[n] = "walls"

\* C18: in a wall column a hit whose drawStart is larger than the smallest
\* drawStart of the hits before it is skipped: no pixel is written for it.
C18_ShorterFartherWallSkipped ==
    \A x \in Columns :
        LET hits == ColumnHits(x)
        IN  \A k \in 1 .. Len(hits) :
                (/\ HasWallInfo(hits[k])
                 /\ \E j \in 1 .. (k - 1) :
                        /\ HasWallInfo(hits[j])
                        /\ RLt(HitDrawStart(hits[j]), HitDrawStart(hits[k])))
                => \A i \in WallEntries(x, hits[k]) : ~log[i].written

\* C19: a hit on a cell without cellInfo leaves no trace in the wall pass,
\* and the ray goes on: every later hit of the column on a cell with cellInfo
\* whose span has a row on the screen is drawn by the pass.
C19_UndefinedCellSkipped ==
    WallsPassRan =>
        \A x \in Columns :
            LET hits == ColumnHits(x)
            IN  \A k \in 1 .. Len(hits) :
                    IF HasWallInfo(hits[k])
                    THEN (/\ \E j \in 1 .. (k - 1) : ~HasWallInfo(hits[j])
                          /\ RLt(ClipStartY(HitDrawStart(hits[k])),
                                 ClipEndY(WallDrawEnd(screen, camera, hits[k]),
                                          screen)))
                         => WallEntries(x, hits[k]) # {}
                    ELSE WallEntries(x, hits[k]) = {}

\* a finished wall pass in which a ray passed a cell without cellInfo and
\* a pixel of a wall behind it was written
C19_Witness ==
    /\ WallsPassRan
    /\ \E x \in Columns :
        LET hits == ColumnHits(x)
        IN  \E j, k \in 1 .. Len(hits) :
                /\ j < k
                /\ ~HasWallInfo(hits[j])
                /\ HasWallInfo(hits[k])
                /\ \E i \in WallEntries(x, hits[k]) : log[i].written

\* the cast before the last one and the last one both returned a hit, on a
\* ray whose direction is not the zero vector
TwoHitsInARow ==
    /\ nCasts >= 2
    /\ prevRay.hit # 0
    /\ ray.hit # 0
    /\ ~(ray.deltaDistX = Infinity /\ ray.deltaDistY = Infinity)

\* C20 as stated: a cast() that returns a hit after a cast() that returned a
\* hit reports a different cell at a strictly greater distance, also when
\* the ray passes through a grid corner.
C20_NextHitStrictlyBeyond ==
    TwoHitsInARow =>
        /\ <<ray.mapX, ray.mapY>> # <<prevRay.mapX, prevRay.mapY>>
        /\ RGt(ray.distance, prevRay.distance)

\* C20 amended: the next hit is a different cell at a distance that is not
\* smaller, and strictly greater when both hits are on faces of the same
\* axis; through a grid corner two hits can have the same distance.
C20_NextHitNotNearer ==
    TwoHitsInARow =>
        /\ <<ray.mapX, ray.mapY>> # <<prevRay.mapX, prevRay.mapY>>
        /\ RGe(ray.distance, prevRay.distance)
        /\ ray.side = prevRay.side => RGt(ray.distance, prevRay.distance)

\* two hits in a row through a grid corner, at the same distance
C20_Witness ==
    /\ TwoHitsInARow
    /\ ray.side # prevRay.side
    /\ ray.distance = prevRay.distance
    /\ <<ray.mapX, ray.mapY>> # <<prevRay.mapX, prevRay.mapY>>

\* the entity pass of the render has run
EntitiesPassRan == \E n \in DOMAIN passLog : passLog[n] = "entities"

\* the camera-space depth of an entity of the scene
TransformY(entity) == EntityGeometry(screen, camera, entity).transformY

NotInFront(entity) == RLe(TransformY(entity), N(0))

SceneEntities ==
    {scene.gameObject.entities[n] : n \in DOMAIN scene.gameObject.entities}

\* C21: an entity with transformY <= 0 is skipped by the entity pass: the
\* pass considers no pixel for it, so it writes no pixel and no depth.
C21_EntityNotInFrontSkipped ==
    \A entity \in SceneEntities :
        NotInFront(entity) =>
            \A i \in LogIndices :
                ~(/\ log[i].pass = "entities"
                  /\ log[i].surface = TransformY(entity))

\* a finished entity pass over entities on the camera plane and behind the
\* camera, in which the entity in front of the camera was drawn
C21_Witness ==
    /\ EntitiesPassRan
    /\ \E entity \in SceneEntities : TransformY(entity) = N(0)
    /\ \E entity \in SceneEntities : RLt(TransformY(entity), N(0))
    /\ \E i \in LogIndices : log[i].pass = "entities" /\ log[i].written

\* C22: within one pass over the walls, the entities or the floor and
\* ceiling no pixel of the screen is written twice.
C22_PixelWrittenOncePerPass ==
    \A i, j \in LogIndices :
        (/\ i < j
         /\ log[i].pass \in {"walls", "entities", "floorCeiling"}
         /\ log[i].pass = log[j].pass
         /\ log[i].index = log[j].index
         /\ log[i].written)
        => ~log[j].written

\* the coordinate c is an index of a texture dimension of the given size
InTexture(c, size) == IsInt(c) /\ RGe(c, N(0)) /\ RLt(c, N(size))

\* C23: every texel a pass reads lies inside the texture: 0 <= texX <
\* texture.width and 0 <= texY < texture.height, in the wall, entity,
\* floor/ceiling and skybox passes.
C23_TexelInsideTexture ==
    \A i \in LogIndices :
        log[i].texRead =>
            /\ log[i].texel # NoTexel
            /\ InTexture(log[i].texel[1], log[i].appearance.width)
            /\ InTexture(log[i].texel[2], log[i].appearance.height)

\* the pixel indices of the screen
BufferIndices == 0 .. (screen.renderWidth * screen.renderHeight - 1)

\* C24: no pass reads or writes the pixel or the depth buffer outside
\* [0, renderWidth * renderHeight): every pixel a pass touches has its column
\* in [0, renderWidth) and its row in [0, renderHeight), and the depth buffer
\* never gets an element at another index.
C24_IndexInsideBuffers ==
    /\ \A i \in LogIndices :
        /\ log[i].x \in 0 .. (screen.renderWidth - 1)
        /\ log[i].y \in 0 .. (screen.renderHeight - 1)
        /\ log[i].index = log[i].x + log[i].y * screen.renderWidth
        /\ log[i].index \in BufferIndices
    /\ DOMAIN screen.depthBuffer = BufferIndices

\* a finished render, the horizon pitched off the screen, in which an entity
\* right in front of the camera, whose rectangle starts above the first row
\* and ends below the last one, was drawn into the first and the last row
C24_Witness ==
    /\ lastOp = "render"
    /\ pc = "idle"
    /\ camera \in TiltedCameras
    /\ \E e \in SceneEntities :
        LET g == EntityGeometry(screen, camera, e)
        IN  /\ RGt(g.transformY, N(0))
            /\ RLt(g.transformY, R(1, 10))
            /\ RLt(g.drawStartY, N(0))
            /\ RGt(g.drawEndY, N(screen.renderHeight))
            /\ \A y \in {0, screen.renderHeight - 1} :
                \E i \in LogIndices :
                    /\ log[i].pass = "entities"
                    /\ log[i].surface = g.transformY
                    /\ log[i].y = y
                    /\ log[i].written

\* calculateLightingScalar was called with lighting enabled and a depth > 0
LitCall ==
    /\ call.op = "calculateLightingScalar"
    /\ scene.lighting.enabled
    /\ RGt(call.args[1], N(0))

\* the side shade calculateLightingScalar subtracts for the side handed in
ShadeOf(side) == IF side = 1 THEN scene.lighting.sideShade ELSE N(0)

\* the channel factor a lighting value gives for a channel of the camera color
ChannelFactor(lighting, channel) == RDiv(RMul(lighting, N(channel)), N(255))

\* the factors returned are those of the lighting value l with the side shade
\* of the call subtracted
ReturnsShaded(l) ==
    LET shaded == RSub(l, ShadeOf(call.args[2]))
        color == camera.lighting.color
    IN  /\ call.made.r = ChannelFactor(shaded, color.red)
        /\ call.made.g = ChannelFactor(shaded, color.green)
        /\ call.made.b = ChannelFactor(shaded, color.blue)

\* the lighting value l lies in [lo, hi], and so do its channel factors
LightingWithin(l, lo, hi) ==
    /\ RLe(lo, l)
    /\ RLe(l, hi)
    /\ \A c \in {camera.lighting.color.red, camera.lighting.color.green,
                 camera.lighting.color.blue} :
        /\ RLe(ChannelFactor(lo, c), ChannelFactor(l, c))
        /\ RLe(ChannelFactor(l, c), ChannelFactor(hi, c))

\* C25 as stated: with lighting enabled and depth > 0, for every brightness,
\* maxBrightness and ambientLight the lighting value before the side shade is
\* subtracted lies in [ambientLight, maxBrightness], and each channel factor
\* in [ambientLight * c / 255, maxBrightness * c / 255].
C25_LightingWithinAmbientAndMax ==
    LitCall =>
        LET l == LightingBeforeSideShade(scene, camera, call.args[1])
        IN  /\ ReturnsShaded(l)
            /\ LightingWithin(l, scene.lighting.ambientLight,
                              camera.lighting.maxBrightness)

\* the larger of two numbers
RMax(a, b) == IF RLt(a, b) THEN b ELSE a

\* C25 amended: the lighting value before the side shade is subtracted is at
\* least ambientLight and at most the larger of maxBrightness and
\* ambientLight; it lies in [ambientLight, maxBrightness] whenever
\* ambientLight <= maxBrightness.
C25_LightingWithinAmbientAndLargerBound ==
    LitCall =>
        LET l == LightingBeforeSideShade(scene, camera, call.args[1])
        IN  /\ ReturnsShaded(l)
            /\ LightingWithin(l, scene.lighting.ambientLight,
                              RMax(camera.lighting.maxBrightness,
                                   scene.lighting.ambientLight))

\* a call with a finite maxBrightness not below the ambient light, so near
\* that the value before the clamps is above maxBrightness
C25_Witness ==
    /\ LitCall
    /\ RLe(scene.lighting.ambientLight, camera.lighting.maxBrightness)
    /\ IsFinite(camera.lighting.maxBrightness)
    /\ RGt(LightingBeforeClamps(camera, call.args[1]),
           camera.lighting.maxBrightness)
    /\ call.args[2] = 1
    /\ RGt(scene.lighting.sideShade, N(0))

\* C26 as stated: with lighting enabled the lighting value before the clamps
\* is exactly camera.lighting.brightness / depth, for the depth handed in; the
\* side shade is subtracted after the clamps and only when side = 1.
C26_BrightnessOverDepth ==
    LitCall =>
        LET l0 == RDiv(camera.lighting.brightness, call.args[1])
        IN  /\ LightingBeforeClamps(camera, call.args[1]) = l0
            /\ ReturnsShaded(
                LightingClampBelow(
                    LightingClampAbove(l0, camera.lighting.maxBrightness),
                    scene.lighting.ambientLight))

\* C26 amended: the lighting value before the clamps is exactly
\* camera.lighting.brightness / (depth * camera.focalLength), which is
\* brightness / depth when the focal length is 1; the side shade is
\* subtracted after the clamps and only when side = 1.
C26_BrightnessOverWorldDepth ==
    LitCall =>
        LET l0 == RDiv(camera.lighting.brightness,
                       RMul(call.args[1], camera.focalLength))
        IN  /\ LightingBeforeClamps(camera, call.args[1]) = l0
            /\ ReturnsShaded(
                LightingClampBelow(
                    LightingClampAbove(l0, camera.lighting.maxBrightness),
                    scene.lighting.ambientLight))

\* a call for a wall side with side shade and a focal length other than 1,
\* whose lighting value neither clamp changes
C26_Witness ==
    /\ LitCall
    /\ camera.focalLength # N(1)
    /\ call.args[2] = 1
    /\ RGt(scene.lighting.sideShade, N(0))
    /\ LET l0 == LightingBeforeClamps(camera, call.args[1])
       IN  /\ RLt(l0, camera.lighting.maxBrightness)
           /\ RGt(l0, scene.lighting.ambientLight)

\* the floor / ceiling pass of the render has run
FloorCeilingPassRan == \E n \in DOMAIN passLog : passLog[n] = "floorCeiling"

\* a row bound clamped to [0, renderHeight]
RowBound(enabled, whenEnabled) ==
    LET horizon == Horizon(screen, camera)
        bound == IF enabled THEN N(whenEnabled) ELSE horizon
    IN  IF RLt(bound, N(0)) THEN N(0)
        ELSE IF RGt(bound, N(screen.renderHeight)) THEN N(screen.renderHeight)
        ELSE bound

\* the rows the floor / ceiling pass considered a pixel of
PlaneRowsSeen ==
    {log[i].y : i \in {j \in LogIndices : log[j].pass = "floorCeiling"}}

\* C27: with horizon = floor(renderHeight / 2 + pitch), the floor / ceiling
\* pass processes the rows from (ceiling.enabled ? 0 : horizon) up to and
\* excluding (floor.enabled ? renderHeight : horizon), both clamped to
\* [0, renderHeight]; row y is rendered with the floor plane exactly when
\* y > horizon, so row y = horizon is not a floor row.
C27_FloorRowsBelowHorizon ==
    FloorCeilingPassRan =>
        /\ PlaneRowsSeen =
            {y \in 0 .. (screen.renderHeight - 1) :
                /\ RLe(RowBound(scene.ceiling.enabled, 0), N(y))
                /\ RLt(N(y), RowBound(scene.floor.enabled, screen.renderHeight))}
        /\ \A i \in LogIndices :
            log[i].pass = "floorCeiling" =>
                log[i].appearance =
                    IF RGt(N(log[i].y), Horizon(screen, camera))
                    THEN scene.floor.appearance
                    ELSE scene.ceiling.appearance

\* C28: every depth the floor / ceiling pass stores is a finite number that
\* is not negative, never NaN and never +Infinity, for every row (the row
\* y = horizon too) and every camera height (on the floor, z = 0, too).
C28_PlaneDepthFinite ==
    \A i \in LogIndices :
        (log[i].pass = "floorCeiling" /\ log[i].written) =>
            /\ log[i].depthAfter = log[i].depth
            /\ IsFinite(log[i].depthAfter)
            /\ RGe(log[i].depthAfter, N(0))

\* the columns in which the wall pass drew the red wall at distance 1
UnitWallColumns ==
    {x \in 0 .. (screen.renderWidth - 1) :
        \E i \in LogIndices :
            /\ log[i].pass = "walls"
            /\ log[i].x = x
            /\ log[i].appearance = Red
            /\ log[i].depth = N(1)}

\* C29: for a wall cell of height 1 hit at perpendicular distance 1, with the
\* camera at height 1/2, pitch 0 and lighting disabled, drawStart = 0 and
\* drawEnd = renderHeight for every render height, even or odd, and every
\* pixel of the column has the wall's color, alpha 255 and depth 1.
C29_UnitWallFillsColumn ==
    (/\ lastOp = "render"
     /\ pc = "idle"
     /\ WallsPassRan
     /\ scene.worldMap = UnitWallMap
     /\ ~scene.lighting.enabled
     /\ camera.pitch = N(0)
     /\ camera.orientation.position.z = Half) =>
        /\ WallDrawStart(screen, camera, [distance |-> N(1)],
                         [height |-> N(1)]) = N(0)
        /\ WallDrawEnd(screen, camera, [distance |-> N(1)]) =
            N(screen.renderHeight)
        /\ UnitWallColumns # {}
        /\ \A x \in UnitWallColumns, y \in 0 .. (screen.renderHeight - 1) :
            LET index == x + y * screen.renderWidth
            IN  /\ PixelAt(screen.pixels, index) = <<255, 0, 0, 255>>
                /\ screen.depthBuffer[index] = N(1)

\* the number of times object occurs in array
Occurrences(array, object) ==
    Cardinality({k \in DOMAIN array : array[k] = object})

\* array without its element at position k
WithoutElement(array, k) ==
    [j \in 1 .. (Len(array) - 1) |-> IF j < k THEN array[j] ELSE array[j + 1]]

\* C30: scene.add(e) appends the Entity e to gameObject.entities;
\* scene.remove(e) removes exactly one occurrence of e and nothing else;
\* removing an entity that is not in the list leaves the list as it was;
\* add(e) followed by remove(e) restores the list when e was not in it; add
\* and remove with an argument that is no Entity change nothing.
C30_AddAndRemove ==
    call.op \in {"add", "remove"} =>
        LET object == call.args[1]
            before == call.made.before
            previous == call.made.previous
            entities == scene.gameObject.entities
        IN  /\ ~IsEntity(object) => entities = before
            /\ (call.op = "add" /\ IsEntity(object)) =>
                entities = Append(before, object)
            /\ (call.op = "remove" /\ IsEntity(object)
                    /\ Occurrences(before, object) > 0) =>
                \E k \in DOMAIN before :
                    /\ before[k] = object
                    /\ entities = WithoutElement(before, k)
            /\ (call.op = "remove" /\ IsEntity(object)
                    /\ Occurrences(before, object) = 0) =>
                entities = before
            /\ (call.op = "remove" /\ IsEntity(object)
                    /\ previous.op = "add" /\ previous.args = <<object>>
                    /\ Occurrences(previous.before, object) = 0) =>
                entities = previous.before

====
